---- MODULE Spec2Model ----
(***************************************************************************)
(* Order/stock workflow of src/server.js: the handlers POST /orders,       *)
(* POST /orders/:id/items, PATCH and DELETE /orders/:orderId/items/:itemId,*)
(* PATCH /orders/:id, PATCH /products/:id and GET /orders/:id, each issuing *)
(* its SQL statements one by one through pool.query.                        *)
(*                                                                         *)
(* One step of the model is one statement: it runs on the connection the   *)
(* pool handed to the request, its result is examined by the handler, and  *)
(* the handler's next pool.query is issued in the same turn of the event   *)
(* loop.  The database is PostgreSQL at READ COMMITTED: a connection sees  *)
(* the committed rows plus the uncommitted writes of its own open          *)
(* transaction, and row locks are held until that transaction ends.        *)
(***************************************************************************)
EXTENDS Integers, Sequences, FiniteSets, TLC

(* ------------------------------ bounds --------------------------------- *)
NumProducts == 2        \* products 1..NumProducts exist; NumProducts+1 has no row
NumCustomers == 1       \* customers 1..NumCustomers exist
InitStock   == 1        \* stock of every product in the initial state
MaxQty      == 2        \* largest quantity a request asks for
MaxInserts  == 1        \* order_items ids handed out in a sequential run
PoolMax     == 2        \* connections of the pool free for the modelled requests
NumSlots    == 2        \* requests in flight at the same time
MaxEntries  == 2        \* entries in the item list of a POST /orders
NumWorkers  == 1        \* workers at the start of a run of the worker routes
NumUsers    == 2        \* user accounts at the start of such a run
MaxOrders   == 2        \* orders placed in a run of the single-product versions

Products    == 1..NumProducts
BadProduct  == NumProducts + 1
Customers   == 1..NumCustomers          \* rows of the customers table
BadCustomer == NumCustomers + 1
Conns       == 1..PoolMax
Slots       == 1..NumSlots
Statuses    == {"pending", "picked", "packed", "shipped"}

VARIABLES
  db,            \* committed rows: [products, orders, items]
  nextOrderId,   \* orders id sequence (not transactional)
  nextItemId,    \* order_items id sequence (not transactional)
  conn,          \* per connection: open transaction, its writes and row locks
  idle,          \* the pool's stack of idle connections (top = last)
  pendingQueue,  \* requests waiting for a connection, FIFO
  holds,         \* per request: the connection its current statement runs on, or 0
  req,           \* per request: the HTTP request being handled
  pc,            \* per request: the statement it is awaiting
  loc,           \* per request: the handler's local variables
  resp           \* per request: the response (kind "" while none is sent)

vars == <<db, nextOrderId, nextItemId, conn, idle, pendingQueue, holds, req, pc, loc, resp>>

(* ------------------------------ rows ----------------------------------- *)
NoProduct == [stock |-> 0, price |-> 0]
NoItem    == [order |-> 0, product |-> 0, quantity |-> 0, price |-> 0]
NoOrder   == [customer |-> 0, status |-> ""]
\* A worker row: the linked user account (0 for NULL) and the email.
NoWorker  == [user |-> 0, email |-> 0]
EmptyW    == [products |-> [x \in {} |-> NoProduct],
              orders   |-> [x \in {} |-> NoOrder],
              items    |-> [x \in {} |-> NoItem]]
CleanConn == [inTx |-> FALSE, w |-> EmptyW, del |-> {}, locks |-> {}]

NoReq == [kind |-> "", customerId |-> 0, items |-> <<>>, orderId |-> 0, itemId |-> 0,
          productId |-> 0, quantity |-> 0, status |-> "", setStock |-> FALSE,
          stock |-> 0, setPrice |-> FALSE, price |-> 0,
          aborted |-> FALSE,   \* the caller has closed the connection
          workerId |-> 0, userId |-> 0, email |-> 0,
          customerName |-> 0]  \* 0 when the body has no customerName
NoLoc == [k |-> 0, oid |-> 0, item |-> NoItem, product |-> NoProduct, made |-> {},
          order |-> NoOrder, rows |-> {}]
\* `says` holds what an error message states, as <<name, value>> pairs.
NoResp == [kind |-> "", order |-> NoOrder, items |-> {}, says |-> {}]

Reply(kind) == [NoResp EXCEPT !.kind = kind]

(* --------------------------- the database ------------------------------ *)
\* Faulty variant of the view below: a statement does not see the
\* uncommitted writes of the transaction it runs in.
ViewCommittedOnly(c) == db

\* What a statement on connection c reads: committed rows overlaid with the
\* uncommitted writes and deletions of c's open transaction.
View(c) ==
  LET w == conn[c].w IN
  [products |-> [p \in DOMAIN db.products |->
                   IF p \in DOMAIN w.products THEN w.products[p] ELSE db.products[p]],
   orders   |-> [o \in DOMAIN w.orders \cup DOMAIN db.orders |->
                   IF o \in DOMAIN w.orders THEN w.orders[o] ELSE db.orders[o]],
   items    |-> [i \in (DOMAIN w.items \cup DOMAIN db.items) \ conn[c].del |->
                   IF i \in DOMAIN w.items THEN w.items[i] ELSE db.items[i]],
   workers  |-> db.workers,
   users    |-> db.users,
   ordersArray   |-> db.ordersArray,
   productsArray |-> db.productsArray]

\* The rows of V that are new or differ from the committed ones.
Diff(V) ==
  [products |-> [p \in {q \in DOMAIN V.products : V.products[q] # db.products[q]}
                   |-> V.products[p]],
   orders   |-> [o \in {q \in DOMAIN V.orders :
                          IF q \in DOMAIN db.orders THEN V.orders[q] # db.orders[q] ELSE TRUE}
                   |-> V.orders[o]],
   items    |-> [i \in {q \in DOMAIN V.items :
                          IF q \in DOMAIN db.items THEN V.items[q] # db.items[q] ELSE TRUE}
                   |-> V.items[i]]]

\* Faulty variant of the lock below: every row of the table is locked.
ProductKeyAnyRow(V, p) == {<<"products", x>> : x \in DOMAIN V.products}

ProductKey(V, p) == IF p \in DOMAIN V.products THEN {<<"products", p>>} ELSE {}

OrderKey(V, o)   == IF o \in DOMAIN V.orders THEN {<<"orders", o>>} ELSE {}
ItemKey(V, i)    == IF i \in DOMAIN V.items THEN {<<"order_items", i>>} ELSE {}

\* A statement that needs the row locks `keys` waits while another
\* connection's open transaction holds one of them.
Blocked(c, keys) == \E c2 \in Conns \ {c} : conn[c2].locks \cap keys # {}

\* A writing (or FOR UPDATE) statement on c that turns c's view into V2 and
\* locks `keys`: inside a transaction the write stays private and the locks
\* are kept; outside (autocommit) it is committed at once.
Write(c, V2, keys) ==
  /\ ~Blocked(c, keys)
  /\ IF conn[c].inTx
     THEN /\ conn' = [conn EXCEPT ![c] = [inTx  |-> TRUE,
                                        w     |-> Diff(V2),
                                        del   |-> DOMAIN db.items \ DOMAIN V2.items,
                                        locks |-> conn[c].locks \cup keys]]
          /\ db' = db
     ELSE /\ db' = V2
          /\ conn' = conn

Read == UNCHANGED <<db, conn>>

\* BEGIN opens a transaction; inside one it only raises a warning.
SqlBegin(c) ==
  /\ conn' = [conn EXCEPT ![c].inTx = TRUE]
  /\ db' = db

\* COMMIT publishes the connection's transaction, whoever wrote into it.
SqlCommit(c) ==
  /\ db' = View(c)
  /\ conn' = [conn EXCEPT ![c] = CleanConn]

\* ROLLBACK discards the connection's transaction, whoever wrote into it.
SqlRollback(c) ==
  /\ db' = db
  /\ conn' = [conn EXCEPT ![c] = CleanConn]

(* ------------------------------ the pool ------------------------------- *)
\* pool.query at the start of a handler: take the idle connection on top of
\* the stack, or wait in the queue when every connection is busy.
Connect(r) ==
  IF idle # <<>>
  THEN /\ holds' = [holds EXCEPT ![r] = idle[Len(idle)]]
       /\ idle' = SubSeq(idle, 1, Len(idle) - 1)
       /\ pendingQueue' = pendingQueue
  ELSE /\ pendingQueue' = Append(pendingQueue, r)
       /\ UNCHANGED <<holds, idle>>

\* A statement of r has completed: pool.query releases the connection, the
\* pool hands it to the first waiting request if there is one, and the
\* handler, when it has `more` statements, calls pool.query again.
Release(r, more) ==
  LET c == holds[r] IN
  IF pendingQueue # <<>>
  THEN /\ holds' = [holds EXCEPT ![r] = 0, ![Head(pendingQueue)] = c]
       /\ pendingQueue' = IF more THEN Append(Tail(pendingQueue), r)
                                  ELSE Tail(pendingQueue)
       /\ idle' = idle
  ELSE IF more
       THEN UNCHANGED <<holds, idle, pendingQueue>>
       ELSE /\ holds' = [holds EXCEPT ![r] = 0]
            /\ idle' = Append(idle, c)
            /\ pendingQueue' = pendingQueue

\* The handler moves on: next awaited statement (or "done"), locals, response.
Goto(r, npc, nloc, nresp) ==
  /\ pc' = [pc EXCEPT ![r] = npc]
  /\ loc' = [loc EXCEPT ![r] = nloc]
  /\ resp' = [resp EXCEPT ![r] = nresp]
  /\ Release(r, npc # "done")
  /\ UNCHANGED req

\* Faulty variant of the exit below: the response goes out at once, without
\* the ROLLBACK.
FailAtOnce(r, kind) == Goto(r, "done", loc[r], Reply(kind))

\* Leave through `await pool.query("ROLLBACK"); return res.status(..)`.
Fail(r, kind) == Goto(r, "rollback", loc[r], Reply(kind))

\* The same, with the response `nresp`.
FailWith(r, nresp) == Goto(r, "rollback", loc[r], nresp)

Awaiting(r, kind, label) ==
  /\ req[r].kind = kind
  /\ pc[r] = label
  /\ holds[r] # 0

(* ------------------------- checks of the handlers ----------------------- *)
\* server.js:348  !customerId || !items || !Array.isArray(items) || items.length === 0
CreateOrderInvalid(q) == q.customerId = 0 \/ Len(q.items) = 0

\* Faulty variant of the check below: a negative quantity passes.
ItemInvalidMissingOnly(e) == e.productId = 0 \/ e.quantity = 0

\* server.js:386 and 595  !productId || !quantity || quantity <= 0
ItemInvalid(e) == e.productId = 0 \/ e.quantity = 0 \/ e.quantity <= 0

\* server.js:674  !quantity || quantity <= 0
QuantityInvalid(q) == q.quantity = 0 \/ q.quantity <= 0

\* server.js:409 and 634  product.stock < quantity
InsufficientStock(product, quantity) == product.stock < quantity

\* server.js:412  `Insufficient stock for ${product.name}. Available:
\* ${product.stock}, Requested: ${quantity}`
StockMessageOfOrder(p, product, quantity) ==
  [Reply("InsufficientStock") EXCEPT
     !.says = {<<"product", p>>, <<"available", product.stock>>, <<"requested", quantity>>}]

\* server.js:637 and 724  `Insufficient stock. Available: ${product.stock}`
StockMessageOfItem(product) ==
  [Reply("InsufficientStock") EXCEPT !.says = {<<"available", product.stock>>}]

\* Faulty variant of the check below: an unchanged quantity is checked too,
\* and refused when nothing is in stock.
StockShortOnNoChange(product, quantityDiff) ==
  \/ quantityDiff >= 0 /\ product.stock <= 0
  \/ quantityDiff > 0 /\ product.stock < quantityDiff

\* Faulty variant of the check below: refuses also when the stock equals the increase.
StockShortAtEqual(product, quantityDiff) ==
  quantityDiff > 0 /\ product.stock <= quantityDiff

\* server.js:721  quantityDiff > 0 && product.stock < quantityDiff
StockShort(product, quantityDiff) == quantityDiff > 0 /\ product.stock < quantityDiff

\* Faulty variant of the check below: no status is refused.
NotPendingIgnored(order) == FALSE

\* server.js:614, 692, 773  orderCheck.rows[0].status !== "pending"
NotPending(order) == order.status # "pending"

\* Faulty variant of the check below: off by one, the last item may go.
IsLastItemOffByOne(count) == count < 1

\* server.js:786  parseInt(itemCount.rows[0].count) <= 1
IsLastItem(count) == count <= 1

\* server.js:210 and 244  isNaN(parsed) || parsed < 0
ProductPatchInvalid(q) == (q.setStock /\ q.stock < 0) \/ (q.setPrice /\ q.price < 0)

(* --------------------------- SQL statements ---------------------------- *)
\* INSERT INTO orders (customer_id, customer_name, status, created_at)
InsertOrder(V, o, customerId) ==
  [V EXCEPT !.orders = [x \in DOMAIN V.orders \cup {o} |->
        IF x = o THEN [customer |-> customerId, status |-> "pending"] ELSE V.orders[x]]]

\* Faulty variant of the statement below: the price is not captured.
InsertItemNoPrice(V, i, orderId, productId, quantity, price) ==
  [V EXCEPT !.items = [x \in DOMAIN V.items \cup {i} |->
        IF x = i THEN [order |-> orderId, product |-> productId,
                       quantity |-> quantity, price |-> 0]
        ELSE V.items[x]]]

\* INSERT INTO order_items (order_id, product_id, product_name, quantity, price_at_order)
InsertItem(V, i, orderId, productId, quantity, price) ==
  [V EXCEPT !.items = [x \in DOMAIN V.items \cup {i} |->
        IF x = i THEN [order |-> orderId, product |-> productId,
                       quantity |-> quantity, price |-> price]
        ELSE V.items[x]]]

\* Faulty variant of the statement below: the quantity is taken twice.
DecreaseStockTwice(V, p, n) ==
  IF p \in DOMAIN V.products
  THEN [V EXCEPT !.products[p].stock = V.products[p].stock - 2 * n]
  ELSE V

\* UPDATE products SET stock = stock - $1 WHERE id = $2
DecreaseStock(V, p, n) ==
  IF p \in DOMAIN V.products
  THEN [V EXCEPT !.products[p].stock = V.products[p].stock - n]
  ELSE V

\* Faulty variant of the statement below: restores one unit, whatever n.
RestoreStockByOne(V, p, n) ==
  IF p \in DOMAIN V.products
  THEN [V EXCEPT !.products[p].stock = V.products[p].stock + 1]
  ELSE V

\* UPDATE products SET stock = stock + $1 WHERE id = $2
RestoreStock(V, p, n) ==
  IF p \in DOMAIN V.products
  THEN [V EXCEPT !.products[p].stock = V.products[p].stock + n]
  ELSE V

\* Faulty variant of the statement below: the item is priced again.
SetItemQuantityRepriced(V, i, quantity) ==
  IF i \in DOMAIN V.items
  THEN [V EXCEPT !.items[i].quantity = quantity,
                 !.items[i].price = V.products[V.items[i].product].price]
  ELSE V

\* UPDATE order_items SET quantity = $1 WHERE id = $2
SetItemQuantity(V, i, quantity) ==
  IF i \in DOMAIN V.items THEN [V EXCEPT !.items[i].quantity = quantity] ELSE V

\* Faulty variant of the statement below: every item of the item's order
\* is deleted.
DeleteItemsOfSameOrder(V, i) ==
  [V EXCEPT !.items = [x \in {y \in DOMAIN V.items :
                                 i \in DOMAIN V.items => V.items[y].order # V.items[i].order}
                         |-> V.items[x]]]

\* DELETE FROM order_items WHERE id = $1
DeleteItem(V, i) ==
  [V EXCEPT !.items = [x \in DOMAIN V.items \ {i} |-> V.items[x]]]

\* UPDATE orders SET status = $1 WHERE id = $2
SetOrderStatus(V, o, status) ==
  IF o \in DOMAIN V.orders THEN [V EXCEPT !.orders[o].status = status] ELSE V

\* UPDATE products SET stock = $1, price = $2 WHERE id = $3 (fields as given)
SetProduct(V, q) ==
  IF q.productId \in DOMAIN V.products
  THEN [V EXCEPT !.products[q.productId] =
          [stock |-> IF q.setStock THEN q.stock ELSE @.stock,
           price |-> IF q.setPrice THEN q.price ELSE @.price]]
  ELSE V

\* Faulty variant of the query below: the order id is not part of the filter.
ItemOfAnyOrder(V, i, o) == i \in DOMAIN V.items

\* SELECT * FROM order_items WHERE id = $1 AND order_id = $2
ItemOfOrder(V, i, o) == i \in DOMAIN V.items /\ V.items[i].order = o

\* SELECT COUNT(*) FROM order_items WHERE order_id = $1
ItemCount(V, o) == Cardinality({i \in DOMAIN V.items : V.items[i].order = o})

\* SELECT * FROM order_items WHERE order_id = $1
ItemsOf(V, o) == {i \in DOMAIN V.items : V.items[i].order = o}

(* ------------------------ arrival of a request ------------------------- *)
TxKinds == {"CreateOrder", "AddItem", "UpdateItem", "RemoveItem"}

\* Faulty variant of the checks below: the order routes check nothing
\* before their first statement.
RejectedLate(q) ==
  q.kind = "PatchProduct" /\ (ProductPatchInvalid(q) \/ ~(q.setStock \/ q.setPrice))

\* The checks a handler makes before its first statement.
RejectedAtOnce(q) ==
  \/ q.kind = "CreateOrder" /\ CreateOrderInvalid(q)
  \/ q.kind = "AddItem" /\ ItemInvalid(q)
  \/ q.kind = "UpdateItem" /\ QuantityInvalid(q)
  \/ q.kind = "PatchProduct" /\ (ProductPatchInvalid(q) \/ ~(q.setStock \/ q.setPrice))
  \/ q.kind = "PostWorker" /\ q.email = 0
  \/ q.kind = "PostOrder" /\ (q.productId = 0 \/ q.quantity = 0 \/ q.customerName = 0)

FirstStatement(q) ==
  IF q.kind \in TxKinds THEN "begin"
  ELSE IF q.kind = "PatchOrder" THEN "updateOrder"
  ELSE IF q.kind = "PatchProduct" THEN "updateProduct"
  ELSE IF q.kind = "PostWorker" THEN "selectEmail"
  ELSE IF q.kind = "PatchWorker" THEN (IF q.userId # 0 THEN "selectUser" ELSE "updateWorker")
  ELSE IF q.kind = "DeleteWorker" THEN "selectLinked"
  ELSE IF q.kind = "PostOrder" THEN "begin"
  ELSE "selectOrder"

\* Express calls the handler of request q in slot r.
Start(r, q) ==
  /\ pc[r] = "idle"
  /\ req' = [req EXCEPT ![r] = q]
  /\ loc' = [loc EXCEPT ![r] = NoLoc]
  /\ IF RejectedAtOnce(q)
     THEN /\ pc' = [pc EXCEPT ![r] = "done"]
          /\ resp' = [resp EXCEPT ![r] = Reply("InvalidInput")]
          /\ UNCHANGED <<holds, idle, pendingQueue>>
     ELSE /\ pc' = [pc EXCEPT ![r] = FirstStatement(q)]
          /\ resp' = [resp EXCEPT ![r] = NoResp]
          /\ Connect(r)
  /\ UNCHANGED <<db, conn, nextOrderId, nextItemId>>

\* The response has gone out; the slot is free for the next request.
Finish(r) ==
  /\ pc[r] = "done"
  /\ pc' = [pc EXCEPT ![r] = "idle"]
  /\ req' = [req EXCEPT ![r] = NoReq]
  /\ loc' = [loc EXCEPT ![r] = NoLoc]
  /\ resp' = [resp EXCEPT ![r] = NoResp]
  /\ UNCHANGED <<db, conn, nextOrderId, nextItemId, holds, idle, pendingQueue>>

(* ----------------- POST /orders (server.js:344-445) -------------------- *)
\* Head of `for (const item of items)`: the entry's validation, or COMMIT
\* after the last entry.
CreateOrderLoop(r, nloc) ==
  IF nloc.k > Len(req[r].items)
  THEN Goto(r, "commit", nloc, resp[r])
  ELSE IF ItemInvalid(req[r].items[nloc.k])
       THEN Goto(r, "rollback", nloc, Reply("InvalidInput"))
       ELSE Goto(r, "lockProduct", nloc, resp[r])

CreateOrder_Begin(r) ==
  /\ Awaiting(r, "CreateOrder", "begin")
  /\ SqlBegin(holds[r])
  /\ Goto(r, "customer", loc[r], resp[r])
  /\ UNCHANGED <<nextOrderId, nextItemId>>

CreateOrder_Customer(r) ==
  /\ Awaiting(r, "CreateOrder", "customer")
  /\ Read
  /\ IF req[r].customerId \in Customers
     THEN Goto(r, "insertOrder", loc[r], resp[r])
     ELSE Fail(r, "CustomerNotFound")
  /\ UNCHANGED <<nextOrderId, nextItemId>>

CreateOrder_InsertOrder(r) ==
  /\ Awaiting(r, "CreateOrder", "insertOrder")
  /\ Write(holds[r], InsertOrder(View(holds[r]), nextOrderId, req[r].customerId), {})
  /\ nextOrderId' = nextOrderId + 1
  /\ CreateOrderLoop(r, [loc[r] EXCEPT !.oid = nextOrderId, !.k = 1])
  /\ UNCHANGED nextItemId

CreateOrder_LockProduct(r) ==
  /\ Awaiting(r, "CreateOrder", "lockProduct")
  /\ LET c == holds[r]
         V == View(c)
         e == req[r].items[loc[r].k]
     IN /\ Write(c, V, ProductKey(V, e.productId))
        /\ IF e.productId \notin DOMAIN V.products
           THEN Fail(r, "ProductNotFound")
           ELSE IF InsufficientStock(V.products[e.productId], e.quantity)
                THEN FailWith(r, StockMessageOfOrder(e.productId, V.products[e.productId],
                                                     e.quantity))
                ELSE Goto(r, "insertItem",
                          [loc[r] EXCEPT !.product = V.products[e.productId]], resp[r])
  /\ UNCHANGED <<nextOrderId, nextItemId>>

CreateOrder_InsertItem(r) ==
  /\ Awaiting(r, "CreateOrder", "insertItem")
  /\ LET c == holds[r]
         e == req[r].items[loc[r].k]
     IN Write(c, InsertItem(View(c), nextItemId, loc[r].oid, e.productId, e.quantity,
                            loc[r].product.price), {})
  /\ nextItemId' = nextItemId + 1
  /\ Goto(r, "updateStock", [loc[r] EXCEPT !.made = @ \cup {nextItemId}], resp[r])
  /\ UNCHANGED nextOrderId

CreateOrder_UpdateStock(r) ==
  /\ Awaiting(r, "CreateOrder", "updateStock")
  /\ LET c == holds[r]
         V == View(c)
         e == req[r].items[loc[r].k]
     IN Write(c, DecreaseStock(V, e.productId, e.quantity), ProductKey(V, e.productId))
  /\ CreateOrderLoop(r, [loc[r] EXCEPT !.k = @ + 1])
  /\ UNCHANGED <<nextOrderId, nextItemId>>

CreateOrder_Commit(r) ==
  /\ Awaiting(r, "CreateOrder", "commit")
  /\ SqlCommit(holds[r])
  /\ Goto(r, "done", loc[r], Reply("Created"))
  /\ UNCHANGED <<nextOrderId, nextItemId>>

CreateOrder_Rollback(r) ==
  /\ Awaiting(r, "CreateOrder", "rollback")
  /\ SqlRollback(holds[r])
  /\ Goto(r, "done", loc[r], resp[r])
  /\ UNCHANGED <<nextOrderId, nextItemId>>

(* ------------ POST /orders/:id/items (server.js:591-663) --------------- *)
AddItem_Begin(r) ==
  /\ Awaiting(r, "AddItem", "begin")
  /\ SqlBegin(holds[r])
  /\ Goto(r, "orderCheck", loc[r], resp[r])
  /\ UNCHANGED <<nextOrderId, nextItemId>>

AddItem_OrderCheck(r) ==
  /\ Awaiting(r, "AddItem", "orderCheck")
  /\ Read
  /\ LET V == View(holds[r])
         o == req[r].orderId
     IN IF o \notin DOMAIN V.orders
        THEN Fail(r, "OrderNotFound")
        ELSE IF NotPending(V.orders[o])
             THEN Fail(r, "InvalidState")
             ELSE Goto(r, "lockProduct", loc[r], resp[r])
  /\ UNCHANGED <<nextOrderId, nextItemId>>

AddItem_LockProduct(r) ==
  /\ Awaiting(r, "AddItem", "lockProduct")
  /\ LET c == holds[r]
         V == View(c)
         p == req[r].productId
     IN /\ Write(c, V, ProductKey(V, p))
        /\ IF p \notin DOMAIN V.products
           THEN Fail(r, "ProductNotFound")
           ELSE IF InsufficientStock(V.products[p], req[r].quantity)
                THEN FailWith(r, StockMessageOfItem(V.products[p]))
                ELSE Goto(r, "insertItem", [loc[r] EXCEPT !.product = V.products[p]], resp[r])
  /\ UNCHANGED <<nextOrderId, nextItemId>>

AddItem_InsertItem(r) ==
  /\ Awaiting(r, "AddItem", "insertItem")
  /\ LET c == holds[r]
     IN Write(c, InsertItem(View(c), nextItemId, req[r].orderId, req[r].productId,
                            req[r].quantity, loc[r].product.price), {})
  /\ nextItemId' = nextItemId + 1
  /\ Goto(r, "updateStock", [loc[r] EXCEPT !.made = @ \cup {nextItemId}], resp[r])
  /\ UNCHANGED nextOrderId

AddItem_UpdateStock(r) ==
  /\ Awaiting(r, "AddItem", "updateStock")
  /\ LET c == holds[r]
         V == View(c)
     IN Write(c, DecreaseStock(V, req[r].productId, req[r].quantity),
              ProductKey(V, req[r].productId))
  /\ Goto(r, "commit", loc[r], resp[r])
  /\ UNCHANGED <<nextOrderId, nextItemId>>

AddItem_Commit(r) ==
  /\ Awaiting(r, "AddItem", "commit")
  /\ SqlCommit(holds[r])
  /\ Goto(r, "done", loc[r], Reply("Created"))
  /\ UNCHANGED <<nextOrderId, nextItemId>>

AddItem_Rollback(r) ==
  /\ Awaiting(r, "AddItem", "rollback")
  /\ SqlRollback(holds[r])
  /\ Goto(r, "done", loc[r], resp[r])
  /\ UNCHANGED <<nextOrderId, nextItemId>>

(* ------ PATCH /orders/:orderId/items/:itemId (server.js:666-749) ------- *)
UpdateItem_Begin(r) ==
  /\ Awaiting(r, "UpdateItem", "begin")
  /\ SqlBegin(holds[r])
  /\ Goto(r, "orderCheck", loc[r], resp[r])
  /\ UNCHANGED <<nextOrderId, nextItemId>>

UpdateItem_OrderCheck(r) ==
  /\ Awaiting(r, "UpdateItem", "orderCheck")
  /\ Read
  /\ LET V == View(holds[r])
         o == req[r].orderId
     IN IF o \notin DOMAIN V.orders
        THEN Fail(r, "OrderNotFound")
        ELSE IF NotPending(V.orders[o])
             THEN Fail(r, "InvalidState")
             ELSE Goto(r, "itemSelect", loc[r], resp[r])
  /\ UNCHANGED <<nextOrderId, nextItemId>>

UpdateItem_ItemSelect(r) ==
  /\ Awaiting(r, "UpdateItem", "itemSelect")
  /\ Read
  /\ LET V == View(holds[r])
     IN IF ItemOfOrder(V, req[r].itemId, req[r].orderId)
        THEN Goto(r, "lockProduct", [loc[r] EXCEPT !.item = V.items[req[r].itemId]], resp[r])
        ELSE Fail(r, "ItemNotFound")
  /\ UNCHANGED <<nextOrderId, nextItemId>>

\* oldQuantity = item.quantity is the value read by the statement before.
UpdateItem_LockProduct(r) ==
  /\ Awaiting(r, "UpdateItem", "lockProduct")
  /\ LET c == holds[r]
         V == View(c)
         p == loc[r].item.product
         quantityDiff == req[r].quantity - loc[r].item.quantity
     IN /\ Write(c, V, ProductKey(V, p))
        /\ IF StockShort(V.products[p], quantityDiff)
           THEN FailWith(r, StockMessageOfItem(V.products[p]))
           ELSE Goto(r, "updateItem", [loc[r] EXCEPT !.product = V.products[p]], resp[r])
  /\ UNCHANGED <<nextOrderId, nextItemId>>

UpdateItem_UpdateItem(r) ==
  /\ Awaiting(r, "UpdateItem", "updateItem")
  /\ LET c == holds[r]
         V == View(c)
     IN Write(c, SetItemQuantity(V, req[r].itemId, req[r].quantity),
              ItemKey(V, req[r].itemId))
  /\ Goto(r, "updateStock", loc[r], resp[r])
  /\ UNCHANGED <<nextOrderId, nextItemId>>

UpdateItem_UpdateStock(r) ==
  /\ Awaiting(r, "UpdateItem", "updateStock")
  /\ LET c == holds[r]
         V == View(c)
         p == loc[r].item.product
     IN Write(c, DecreaseStock(V, p, req[r].quantity - loc[r].item.quantity),
              ProductKey(V, p))
  /\ Goto(r, "commit", loc[r], resp[r])
  /\ UNCHANGED <<nextOrderId, nextItemId>>

UpdateItem_Commit(r) ==
  /\ Awaiting(r, "UpdateItem", "commit")
  /\ SqlCommit(holds[r])
  /\ Goto(r, "done", loc[r], Reply("OK"))
  /\ UNCHANGED <<nextOrderId, nextItemId>>

UpdateItem_Rollback(r) ==
  /\ Awaiting(r, "UpdateItem", "rollback")
  /\ SqlRollback(holds[r])
  /\ Goto(r, "done", loc[r], resp[r])
  /\ UNCHANGED <<nextOrderId, nextItemId>>

(* ------ DELETE /orders/:orderId/items/:itemId (server.js:752-824) ------ *)
RemoveItem_Begin(r) ==
  /\ Awaiting(r, "RemoveItem", "begin")
  /\ SqlBegin(holds[r])
  /\ Goto(r, "orderCheck", loc[r], resp[r])
  /\ UNCHANGED <<nextOrderId, nextItemId>>

RemoveItem_OrderCheck(r) ==
  /\ Awaiting(r, "RemoveItem", "orderCheck")
  /\ Read
  /\ LET V == View(holds[r])
         o == req[r].orderId
     IN IF o \notin DOMAIN V.orders
        THEN Fail(r, "OrderNotFound")
        ELSE IF NotPending(V.orders[o])
             THEN Fail(r, "InvalidState")
             ELSE Goto(r, "itemCount", loc[r], resp[r])
  /\ UNCHANGED <<nextOrderId, nextItemId>>

RemoveItem_ItemCount(r) ==
  /\ Awaiting(r, "RemoveItem", "itemCount")
  /\ Read
  /\ IF IsLastItem(ItemCount(View(holds[r]), req[r].orderId))
     THEN Fail(r, "LastItem")
     ELSE Goto(r, "itemSelect", loc[r], resp[r])
  /\ UNCHANGED <<nextOrderId, nextItemId>>

RemoveItem_ItemSelect(r) ==
  /\ Awaiting(r, "RemoveItem", "itemSelect")
  /\ Read
  /\ LET V == View(holds[r])
     IN IF ItemOfOrder(V, req[r].itemId, req[r].orderId)
        THEN Goto(r, "restoreStock", [loc[r] EXCEPT !.item = V.items[req[r].itemId]], resp[r])
        ELSE Fail(r, "ItemNotFound")
  /\ UNCHANGED <<nextOrderId, nextItemId>>

RemoveItem_RestoreStock(r) ==
  /\ Awaiting(r, "RemoveItem", "restoreStock")
  /\ LET c == holds[r]
         V == View(c)
         p == loc[r].item.product
     IN Write(c, RestoreStock(V, p, loc[r].item.quantity), ProductKey(V, p))
  /\ Goto(r, "deleteItem", loc[r], resp[r])
  /\ UNCHANGED <<nextOrderId, nextItemId>>

RemoveItem_DeleteItem(r) ==
  /\ Awaiting(r, "RemoveItem", "deleteItem")
  /\ LET c == holds[r]
         V == View(c)
     IN Write(c, DeleteItem(V, req[r].itemId), ItemKey(V, req[r].itemId))
  /\ Goto(r, "commit", loc[r], resp[r])
  /\ UNCHANGED <<nextOrderId, nextItemId>>

RemoveItem_Commit(r) ==
  /\ Awaiting(r, "RemoveItem", "commit")
  /\ SqlCommit(holds[r])
  /\ Goto(r, "done", loc[r], Reply("OK"))
  /\ UNCHANGED <<nextOrderId, nextItemId>>

RemoveItem_Rollback(r) ==
  /\ Awaiting(r, "RemoveItem", "rollback")
  /\ SqlRollback(holds[r])
  /\ Goto(r, "done", loc[r], resp[r])
  /\ UNCHANGED <<nextOrderId, nextItemId>>

(* ---------------- PATCH /orders/:id (server.js:498-588) ---------------- *)
PatchOrder_Update(r) ==
  /\ Awaiting(r, "PatchOrder", "updateOrder")
  /\ LET c == holds[r]
         V == View(c)
     IN Write(c, SetOrderStatus(V, req[r].orderId, req[r].status),
              OrderKey(V, req[r].orderId))
  /\ Goto(r, "selectOrder", loc[r], resp[r])
  /\ UNCHANGED <<nextOrderId, nextItemId>>

PatchOrder_SelectOrder(r) ==
  /\ Awaiting(r, "PatchOrder", "selectOrder")
  /\ Read
  /\ LET V == View(holds[r])
         o == req[r].orderId
     IN IF o \in DOMAIN V.orders
        THEN Goto(r, "selectItems", [loc[r] EXCEPT !.order = V.orders[o]], resp[r])
        ELSE Goto(r, "done", loc[r], Reply("OrderNotFound"))
  /\ UNCHANGED <<nextOrderId, nextItemId>>

PatchOrder_SelectItems(r) ==
  /\ Awaiting(r, "PatchOrder", "selectItems")
  /\ Read
  /\ Goto(r, "done", loc[r],
          [kind |-> "OK", order |-> loc[r].order,
           items |-> ItemsOf(View(holds[r]), req[r].orderId), says |-> {}])
  /\ UNCHANGED <<nextOrderId, nextItemId>>

(* --------------- PATCH /products/:id (server.js:189-285) --------------- *)
PatchProduct_Update(r) ==
  /\ Awaiting(r, "PatchProduct", "updateProduct")
  /\ LET c == holds[r]
         V == View(c)
     IN /\ Write(c, SetProduct(V, req[r]), ProductKey(V, req[r].productId))
        /\ Goto(r, "done", loc[r],
                IF req[r].productId \in DOMAIN V.products
                THEN Reply("OK") ELSE Reply("ProductNotFound"))
  /\ UNCHANGED <<nextOrderId, nextItemId>>

(* ----------------- GET /orders/:id (server.js:448-495) ----------------- *)
GetOrder_SelectOrder(r) ==
  /\ Awaiting(r, "GetOrder", "selectOrder")
  /\ Read
  /\ LET V == View(holds[r])
         o == req[r].orderId
     IN IF o \in DOMAIN V.orders
        THEN Goto(r, "selectItems", [loc[r] EXCEPT !.order = V.orders[o]], resp[r])
        ELSE Goto(r, "done", loc[r], Reply("OrderNotFound"))
  /\ UNCHANGED <<nextOrderId, nextItemId>>

GetOrder_SelectItems(r) ==
  /\ Awaiting(r, "GetOrder", "selectItems")
  /\ Read
  /\ Goto(r, "done", loc[r],
          [kind |-> "OK", order |-> loc[r].order,
           items |-> ItemsOf(View(holds[r]), req[r].orderId), says |-> {}])
  /\ UNCHANGED <<nextOrderId, nextItemId>>

(* ------------------------------ requests ------------------------------- *)
CreateOrderReq(customerId, items) ==
  [NoReq EXCEPT !.kind = "CreateOrder", !.customerId = customerId, !.items = items]
AddItemReq(orderId, productId, quantity) ==
  [NoReq EXCEPT !.kind = "AddItem", !.orderId = orderId, !.productId = productId,
                !.quantity = quantity]
UpdateItemReq(orderId, itemId, quantity) ==
  [NoReq EXCEPT !.kind = "UpdateItem", !.orderId = orderId, !.itemId = itemId,
                !.quantity = quantity]
RemoveItemReq(orderId, itemId) ==
  [NoReq EXCEPT !.kind = "RemoveItem", !.orderId = orderId, !.itemId = itemId]
PatchOrderReq(orderId, status) ==
  [NoReq EXCEPT !.kind = "PatchOrder", !.orderId = orderId, !.status = status]
PatchStockReq(productId, stock) ==
  [NoReq EXCEPT !.kind = "PatchProduct", !.productId = productId, !.setStock = TRUE,
                !.stock = stock]
PatchPriceReq(productId, price) ==
  [NoReq EXCEPT !.kind = "PatchProduct", !.productId = productId, !.setPrice = TRUE,
                !.price = price]
GetOrderReq(orderId) ==
  [NoReq EXCEPT !.kind = "GetOrder", !.orderId = orderId]

Entry(productId, quantity) == [NoReq EXCEPT !.productId = productId, !.quantity = quantity]

\* Item lists of 1..n entries over the products P and quantities Q.
ItemLists(P, Q, n) ==
  UNION {[1..m -> {Entry(p, q) : p \in P, q \in Q}] : m \in 1..n}

(* ---------------------------- initial state ---------------------------- *)
\* Order 1 of customer 1, pending, with one item of quantity 1 per product,
\* as a POST /orders leaves it; every product has InitStock left.
InitItems == 1..NumProducts
InitDb ==
  [products |-> [p \in Products |-> [stock |-> InitStock, price |-> p]],
   orders   |-> [o \in {1} |-> [customer |-> 1, status |-> "pending"]],
   items    |-> [i \in InitItems |-> [order |-> 1, product |-> i, quantity |-> 1,
                                      price |-> i]],
   workers  |-> [x \in {} |-> NoWorker],
   users    |-> {},
   \* the arrays `orders` and `products` of the versions in src/unnamed
   ordersArray   |-> <<>>,
   productsArray |-> [x \in {} |-> NoProduct]]

InitCommon ==
  /\ db = InitDb
  /\ nextOrderId = 2
  /\ nextItemId = NumProducts + 1
  /\ conn = [c \in Conns |-> CleanConn]
  /\ pendingQueue = <<>>
  /\ holds = [r \in Slots |-> 0]
  /\ req = [r \in Slots |-> NoReq]
  /\ pc = [r \in Slots |-> "idle"]
  /\ loc = [r \in Slots |-> NoLoc]
  /\ resp = [r \in Slots |-> NoResp]

\* The pool has between one and PoolMax connections free for these requests.
Init ==
  /\ InitCommon
  /\ idle \in {[i \in 1..n |-> i] : n \in 1..PoolMax}

(* ------------------------------- steps --------------------------------- *)
CreateOrderStep(r) ==
  \/ CreateOrder_Begin(r) \/ CreateOrder_Customer(r) \/ CreateOrder_InsertOrder(r)
  \/ CreateOrder_LockProduct(r) \/ CreateOrder_InsertItem(r) \/ CreateOrder_UpdateStock(r)
  \/ CreateOrder_Commit(r) \/ CreateOrder_Rollback(r)

AddItemStep(r) ==
  \/ AddItem_Begin(r) \/ AddItem_OrderCheck(r) \/ AddItem_LockProduct(r)
  \/ AddItem_InsertItem(r) \/ AddItem_UpdateStock(r) \/ AddItem_Commit(r)
  \/ AddItem_Rollback(r)

UpdateItemStep(r) ==
  \/ UpdateItem_Begin(r) \/ UpdateItem_OrderCheck(r) \/ UpdateItem_ItemSelect(r)
  \/ UpdateItem_LockProduct(r) \/ UpdateItem_UpdateItem(r) \/ UpdateItem_UpdateStock(r)
  \/ UpdateItem_Commit(r) \/ UpdateItem_Rollback(r)

RemoveItemStep(r) ==
  \/ RemoveItem_Begin(r) \/ RemoveItem_OrderCheck(r) \/ RemoveItem_ItemCount(r)
  \/ RemoveItem_ItemSelect(r) \/ RemoveItem_RestoreStock(r) \/ RemoveItem_DeleteItem(r)
  \/ RemoveItem_Commit(r) \/ RemoveItem_Rollback(r)

PatchOrderStep(r) ==
  PatchOrder_Update(r) \/ PatchOrder_SelectOrder(r) \/ PatchOrder_SelectItems(r)

GetOrderStep(r) == GetOrder_SelectOrder(r) \/ GetOrder_SelectItems(r)

\* The statements of the item operations and of the status update.
ItemStatement(r) ==
  AddItemStep(r) \/ UpdateItemStep(r) \/ RemoveItemStep(r) \/ PatchOrderStep(r)

Statement(r) ==
  \/ CreateOrderStep(r) \/ ItemStatement(r)
  \/ PatchProduct_Update(r) \/ GetOrderStep(r)

\* Requests of the concurrent runs: they all address order 1 and its items.
ConcInputs ==
       {CreateOrderReq(1, l) : l \in ItemLists(Products, {1}, 2)}
  \cup {AddItemReq(1, p, 1) : p \in Products}
  \cup {UpdateItemReq(1, i, q) : i \in InitItems, q \in 1..MaxQty}
  \cup {RemoveItemReq(1, i) : i \in InitItems}
  \cup {PatchOrderReq(1, s) : s \in {"pending", "picked"}}
  \cup {PatchStockReq(1, 0)}
  \cup {GetOrderReq(o) : o \in 1..2}

Arrive(r) == \E q \in ConcInputs : Start(r, q)

\* Up to NumSlots requests, arriving at any time, each handled once.
Next == \E r \in Slots : Arrive(r) \/ Statement(r)

Spec == Init /\ [][Next]_vars

(* ------------- one request after the other, on order 1 ----------------- *)
MaxItemId == NumProducts + MaxInserts
ItemIds   == 1..MaxItemId

\* Requests of the sequential runs: the item operations and the status
\* update on order 1, with every product, item id and quantity, and probes
\* with an order that does not exist and with quantities that are not positive.
ItemInputs ==
       {AddItemReq(1, p, q) : p \in Products \cup {BadProduct}, q \in 1..MaxQty}
  \cup {AddItemReq(o, 1, q) : o \in 1..2, q \in {-1, 0, 1}}
  \cup {UpdateItemReq(1, i, q) : i \in ItemIds, q \in 1..MaxQty}
  \cup {UpdateItemReq(o, 1, q) : o \in 1..2, q \in {-1, 0, 1}}
  \cup {RemoveItemReq(o, i) : o \in 1..2, i \in ItemIds}
  \cup {PatchOrderReq(o, s) : o \in 1..2, s \in Statuses}

\* The ids a request may take from the order_items sequence.
Inserts(q) ==
  IF q.kind = "AddItem" THEN 1
  ELSE IF q.kind = "CreateOrder" THEN Len(q.items)
  ELSE 0

\* A request arrives when no other is in flight; the id sequence is capped.
ArriveAlone ==
  /\ \A r \in Slots : pc[r] = "idle"
  /\ \E q \in ItemInputs :
        /\ nextItemId + Inserts(q) - 1 <= MaxItemId
        /\ Start(1, q)

NextItems == ArriveAlone \/ ItemStatement(1) \/ Finish(1)

InitItemsRun ==
  /\ InitCommon
  /\ idle = [i \in 1..PoolMax |-> i]

SpecItems == InitItemsRun /\ [][NextItems]_vars

(* ------- one POST /orders, after any number of product edits ---------- *)
\* A price no product has in the initial state.
NewPrice == NumProducts + 1

\* PATCH /products/:id requests that set the stock or the price.
ProductInputs ==
       {PatchStockReq(p, s) : p \in Products, s \in {0, MaxQty}}
  \cup {PatchPriceReq(1, NewPrice)}

\* POST /orders requests: any customer id, item lists over the products and
\* a product id without a row.
OrderInputs ==
  {CreateOrderReq(c, l) : c \in Customers \cup {BadCustomer},
                          l \in ItemLists(Products \cup {BadProduct}, 1..MaxQty, MaxEntries)}

\* Product edits are handled in slot 1, one after the other.
ArriveProductEdit ==
  /\ \A r \in Slots : pc[r] = "idle"
  /\ \E q \in ProductInputs : Start(1, q)

\* The POST /orders is handled in slot 2, once the edits are over.
ArriveOrder ==
  /\ \A r \in Slots : pc[r] = "idle"
  /\ \E q \in OrderInputs : Start(2, q)

NextOrders ==
  \/ ArriveProductEdit \/ PatchProduct_Update(1) \/ Finish(1)
  \/ ArriveOrder \/ CreateOrderStep(2)

SpecOrders == InitItemsRun /\ [][NextOrders]_vars

(* ---------- item changes, one after the other, with two orders -------- *)
\* Orders 1 and 2 of customer 1, both pending: order 1 as in InitDb, order 2
\* with one item of product 1, as two POST /orders leave them.
TwoOrdersDb ==
  [InsertItem(InsertOrder(InitDb, 2, 1), NumProducts + 1, 2, 1, 1, 1)
     EXCEPT !.products = InitDb.products]

InitTwoOrders ==
  /\ db = TwoOrdersDb
  /\ nextOrderId = 3
  /\ nextItemId = NumProducts + 2
  /\ conn = [c \in Conns |-> CleanConn]
  /\ idle = [i \in 1..PoolMax |-> i]
  /\ pendingQueue = <<>>
  /\ holds = [r \in Slots |-> 0]
  /\ req = [r \in Slots |-> NoReq]
  /\ pc = [r \in Slots |-> "idle"]
  /\ loc = [r \in Slots |-> NoLoc]
  /\ resp = [r \in Slots |-> NoResp]

\* Quantity changes and removals with every pairing of the two orders and
\* the item ids, including an id no item has.
TwoOrdersInputs ==
       {UpdateItemReq(o, i, q) : o \in 1..2, i \in 1..(NumProducts + 2), q \in 1..MaxQty}
  \cup {RemoveItemReq(o, i) : o \in 1..2, i \in 1..(NumProducts + 2)}

ArriveTwoOrders ==
  /\ \A r \in Slots : pc[r] = "idle"
  /\ \E q \in TwoOrdersInputs : Start(1, q)

NextTwoOrders ==
  ArriveTwoOrders \/ UpdateItemStep(1) \/ RemoveItemStep(1) \/ Finish(1)

SpecTwoOrders == InitTwoOrders /\ [][NextTwoOrders]_vars

(* ------ item changes and price changes, one at a time, two orders ----- *)
\* Additions of product 1, quantity changes and removals on both orders,
\* with the items of either order, and a new price for product 1.
FrameInputs ==
       {AddItemReq(o, 1, 1) : o \in 1..2}
  \cup {UpdateItemReq(o, i, q) : o \in 1..2, i \in 1..(NumProducts + 1), q \in 1..MaxQty}
  \cup {RemoveItemReq(o, i) : o \in 1..2, i \in 1..(NumProducts + 1)}
  \cup {PatchPriceReq(1, NewPrice)}

ArriveFrame ==
  /\ \A r \in Slots : pc[r] = "idle"
  /\ \E q \in FrameInputs :
        /\ nextItemId + Inserts(q) - 1 <= NumProducts + 1 + MaxInserts
        /\ Start(1, q)

NextFrames ==
  \/ ArriveFrame \/ AddItemStep(1) \/ UpdateItemStep(1) \/ RemoveItemStep(1)
  \/ PatchProduct_Update(1) \/ Finish(1)

SpecFrames == InitTwoOrders /\ [][NextFrames]_vars

(* ------- concurrent operations, each on one product, a client each ---- *)
\* One operation of each kind per product p: item p of order 1 is the item
\* of product p.
LockInputs ==
       {AddItemReq(1, p, 1) : p \in Products}
  \cup {UpdateItemReq(1, p, MaxQty) : p \in Products}
  \cup {RemoveItemReq(1, p) : p \in Products}
  \cup {CreateOrderReq(1, <<Entry(p, 1)>>) : p \in Products}

ArriveLock(r) == \E q \in LockInputs : Start(r, q)

LockStatement(r) ==
  CreateOrderStep(r) \/ AddItemStep(r) \/ UpdateItemStep(r) \/ RemoveItemStep(r)

\* Two requests, in slots 1 and 2, arriving at any time, each handled once.
NextLocks ==
  \/ ArriveLock(1) \/ LockStatement(1)
  \/ ArriveLock(2) \/ LockStatement(2)

SpecLocks == InitItemsRun /\ [][NextLocks]_vars

(* ------------- one request whose caller may go away ------------------- *)
\* The caller cancels the request or gives up waiting: the socket closes.
\* No handler listens for it (no req.on("close"), no timeout on the
\* queries), so the handler goes on as if nothing had happened.
Cancel(r) ==
  /\ pc[r] \notin {"idle", "done"}
  /\ ~req[r].aborted
  /\ req' = [req EXCEPT ![r].aborted = TRUE]
  /\ UNCHANGED <<db, nextOrderId, nextItemId, conn, idle, pendingQueue, holds, pc, loc, resp>>

ArriveCancellable == \E q \in ItemInputs \cup OrderInputs : Start(1, q)

\* One request, handled in slot 1, cancelled at any point or not at all.
NextCancel ==
  ArriveCancellable \/ CreateOrderStep(1) \/ ItemStatement(1) \/ Cancel(1)

SpecCancel == InitItemsRun /\ [][NextCancel]_vars

(* ----------- an addition, then a removal, one after the other -------- *)
\* The run starts with one order or with two.
InitRoundTrip == InitItemsRun \/ InitTwoOrders

\* The committed rows the run started with: the orders sequence, which item
\* operations do not advance, tells the two initial states apart.
StartDb == IF nextOrderId = 2 THEN InitDb ELSE TwoOrdersDb

\* POST /orders/:id/items, handled in slot 1; its outcome is kept.
ArriveAddition ==
  /\ \A r \in Slots : pc[r] = "idle"
  /\ \E q \in {AddItemReq(o, p, n) : o \in 1..2, p \in Products \cup {BadProduct},
                                      n \in 1..MaxQty} : Start(1, q)

\* DELETE /orders/:orderId/items/:itemId, handled in slot 2 once the
\* addition has been answered.
ArriveRemoval ==
  /\ pc[1] = "done" /\ pc[2] = "idle"
  /\ \E q \in {RemoveItemReq(o, i) : o \in 1..2, i \in 1..(NumProducts + 2)} : Start(2, q)

NextRoundTrip ==
  ArriveAddition \/ AddItemStep(1) \/ ArriveRemoval \/ RemoveItemStep(2)

SpecRoundTrip == InitRoundTrip /\ [][NextRoundTrip]_vars

(* --------- requests that fail more than one check, one at a time ------- *)
\* Additions and quantity changes on order 1 and on an order that does not
\* exist, with a missing product id and with quantities that are missing (0),
\* negative or positive, while the status of order 1 changes in between.
CheckInputs ==
       {AddItemReq(o, p, q) : o \in 1..2, p \in {0, 1}, q \in {-1, 0, 1}}
  \cup {UpdateItemReq(o, 1, q) : o \in 1..2, q \in {-1, 0, 1, MaxQty}}
  \cup {PatchOrderReq(1, s) : s \in {"pending", "picked"}}

\* POST /orders with a missing, an existing and an unknown customer and with
\* an empty list or entries whose product id or quantity may be invalid.
OrderCheckInputs ==
  {CreateOrderReq(c, l) :
     c \in {0, 1, BadCustomer},
     l \in {<<>>} \cup ItemLists({0, 1}, {-1, 0, 1}, MaxEntries)}

ArriveCheck ==
  /\ \A r \in Slots : pc[r] = "idle"
  /\ \E q \in CheckInputs :
        /\ nextItemId + Inserts(q) - 1 <= MaxItemId
        /\ Start(1, q)

\* The POST /orders is handled in slot 2 and ends the run.
ArriveOrderCheck ==
  /\ \A r \in Slots : pc[r] = "idle"
  /\ \E q \in OrderCheckInputs : Start(2, q)

NextChecks ==
  \/ ArriveCheck \/ AddItemStep(1) \/ UpdateItemStep(1) \/ PatchOrderStep(1) \/ Finish(1)
  \/ ArriveOrderCheck \/ CreateOrderStep(2)

SpecChecks == InitItemsRun /\ [][NextChecks]_vars

(* ----------------- statements that fail (storage errors) -------------- *)
\* The statement request r awaits inside `try` is rejected: it has no
\* effect, pool.query releases the client and the handler enters `catch`,
\* which in the four transactional handlers issues ROLLBACK before it
\* answers and in the other handlers answers 500 at once.
Statement_Error(r) ==
  /\ holds[r] # 0
  /\ pc[r] \notin {"idle", "done", "catch", "escaped"}
  /\ IF req[r].kind \in TxKinds
     THEN Goto(r, "catch", loc[r], NoResp)
     ELSE Goto(r, "done", loc[r], Reply("StorageError"))
  /\ UNCHANGED <<db, conn, nextOrderId, nextItemId>>

\* catch (error) { await pool.query("ROLLBACK"); res.status(500).json(..) }
Catch_Rollback(r) ==
  /\ req[r].kind \in TxKinds
  /\ pc[r] = "catch"
  /\ holds[r] # 0
  /\ SqlRollback(holds[r])
  /\ Goto(r, "done", loc[r], Reply("StorageError"))
  /\ UNCHANGED <<nextOrderId, nextItemId>>

\* The ROLLBACK issued from `catch` is rejected too: the rejection leaves
\* the async handler, res.status(500) is never reached.  The client is lost
\* with its session, whose transaction the server discards.  The router
\* either drops the rejection (no response is sent) or hands it to the
\* default error handler, which answers on the handler's behalf.
Catch_RollbackError(r) ==
  /\ req[r].kind \in TxKinds
  /\ pc[r] = "catch"
  /\ holds[r] # 0
  /\ conn' = [conn EXCEPT ![holds[r]] = CleanConn]
  /\ pc' = [pc EXCEPT ![r] = "escaped"]
  /\ resp' \in {[resp EXCEPT ![r] = NoResp], [resp EXCEPT ![r] = Reply("Unhandled")]}
  /\ Release(r, FALSE)
  /\ UNCHANGED <<db, nextOrderId, nextItemId, req, loc>>

\* Requests of the runs with failing statements.
ErrorInputs == ConcInputs \cup ItemInputs \cup OrderInputs

\* One request, any of its statements may be rejected.
ArriveOnce == \E q \in ErrorInputs : Start(1, q)

NextErrors ==
  \/ ArriveOnce \/ Statement(1)
  \/ Statement_Error(1) \/ Catch_Rollback(1) \/ Catch_RollbackError(1)

SpecErrors == InitItemsRun /\ [][NextErrors]_vars

(* ------ concurrent operations under fair scheduling, a client each ---- *)
\* The row locks the statement that request r awaits asks for.
WantedKeys(r) ==
  IF pc[r] \in {"lockProduct", "updateStock", "restoreStock"}
  THEN {<<"products",
          IF req[r].kind = "AddItem" THEN req[r].productId
          ELSE IF req[r].kind = "CreateOrder" THEN req[r].items[loc[r].k].productId
          ELSE loc[r].item.product>>}
  ELSE IF pc[r] \in {"updateItem", "deleteItem"}
       THEN {<<"order_items", req[r].itemId>>}
       ELSE {}

\* The statement of r waits for a row lock that the transaction on the
\* connection of r2 holds.
WaitsFor(r, r2) ==
  /\ holds[r] # 0 /\ holds[r2] # 0 /\ holds[r] # holds[r2]
  /\ pc[r] \notin {"idle", "done"}
  /\ conn[holds[r2]].locks \cap WantedKeys(r) # {}

\* Faulty variant of the step below: the server never detects a deadlock.
DeadlockNeverDetected(r) == FALSE /\ UNCHANGED vars

\* Two statements wait for each other's row locks: the database server
\* detects the deadlock, aborts the transaction of one of them, which
\* releases its locks, and rejects its statement; the handler enters catch.
Deadlock_Detected(r) ==
  /\ \E r2 \in Slots \ {r} : WaitsFor(r, r2) /\ WaitsFor(r2, r)
  /\ conn' = [conn EXCEPT ![holds[r]] = [CleanConn EXCEPT !.inTx = TRUE]]
  /\ db' = db
  /\ Goto(r, "catch", loc[r], NoResp)
  /\ UNCHANGED <<nextOrderId, nextItemId>>

\* The item operations on product 1 and POST /orders with one or two
\* entries, which locks the product rows in input order.
LiveInputs ==
       {AddItemReq(1, 1, 1), UpdateItemReq(1, 1, MaxQty), RemoveItemReq(1, 1)}
  \cup {CreateOrderReq(1, l) : l \in ItemLists(Products, {1}, 2)}

ArriveLive(r) == \E q \in LiveInputs : Start(r, q)

\* What the handler in slot r does next, or what is done to it.
HandlerStep(r) == LockStatement(r) \/ Deadlock_Detected(r) \/ Catch_Rollback(r)

\* Two requests, in slots 1 and 2, arriving at any time, each handled once.
NextLive ==
  \/ ArriveLive(1) \/ HandlerStep(1)
  \/ ArriveLive(2) \/ HandlerStep(2)

\* The event loop and the database server run every statement that can run.
SpecLive ==
  /\ InitItemsRun /\ [][NextLive]_vars
  /\ WF_vars(HandlerStep(1)) /\ WF_vars(HandlerStep(2))

(* =============================== claims =============================== *)
InFlight(r) == pc[r] \notin {"idle", "done"}
Answered(r, kind) == req[r].kind = kind /\ pc[r] = "done"

RECURSIVE SumQuantity(_, _)
\* Sum of the quantities of the item rows `ids` of table `items`.
SumQuantity(items, ids) ==
  IF ids = {} THEN 0
  ELSE LET i == CHOOSE x \in ids : TRUE
       IN items[i].quantity + SumQuantity(items, ids \ {i})

\* Total quantity the items of order o hold of product p, in committed state.
Ordered(o, p) ==
  SumQuantity(db.items,
              {i \in DOMAIN db.items : db.items[i].order = o /\ db.items[i].product = p})

\* Total quantity all committed items hold of product p.
OrderedByAll(p) ==
  SumQuantity(db.items, {i \in DOMAIN db.items : db.items[i].product = p})

\* Stock of every product before order 1 of the initial state was placed.
BaseStock == InitStock + 1

\* C1: a CreateOrder that has answered with a failure has left no order row,
\* no order-item row and, when no other request ran, no stock change.
C1_CreateOrderAllOrNothing ==
  \A r \in Slots :
    (Answered(r, "CreateOrder") /\ resp[r].kind # "Created") =>
       /\ loc[r].oid \notin DOMAIN db.orders
       /\ loc[r].made \cap DOMAIN db.items = {}
       /\ (\A r2 \in Slots \ {r} : pc[r2] = "idle") => db.products = InitDb.products

\* C2: the committed stock of every product is never negative.
C2_StockNeverNegative ==
  \A p \in Products : db.products[p].stock >= 0

Min(a, b) == IF a <= b THEN a ELSE b

\* A request that reserves quantity 1 of product p: AddItem, or CreateOrder
\* with one item.
ReservesOne(q, p) ==
  \/ q = AddItemReq(1, p, 1)
  \/ q = CreateOrderReq(1, [k \in 1..1 |-> Entry(p, 1)])

\* C3: when all NumSlots requests reserve quantity 1 of the same product
\* against stock InitStock and all have answered, exactly
\* min(NumSlots, InitStock) have succeeded, the others have failed with
\* InsufficientStock, and the stock is InitStock - min(NumSlots, InitStock).
C3_NoOversell ==
  \A p \in Products :
    (\A r \in Slots : pc[r] = "done" /\ ReservesOne(req[r], p)) =>
       /\ Cardinality({r \in Slots : resp[r].kind = "Created"}) = Min(NumSlots, InitStock)
       /\ \A r \in Slots : resp[r].kind # "Created" => resp[r].kind = "InsufficientStock"
       /\ db.products[p].stock = InitStock - Min(NumSlots, InitStock)

\* C4: what GET /orders/:id has returned never shows an intermediate state
\* of a workflow operation: an order row appears only once the CreateOrder
\* that inserted it has committed, and then with all its items; an item row
\* appears only once the operation that inserted it has committed.
C4_ReaderSeesNoIntermediateState ==
  \A r, w \in Slots :
    (Answered(r, "GetOrder") /\ resp[r].kind = "OK" /\ req[w].kind \in TxKinds) =>
       /\ (loc[w].oid = req[r].orderId) =>
             (resp[w].kind = "Created" /\ resp[r].items = loc[w].made)
       /\ (resp[r].items \cap loc[w].made # {}) => resp[w].kind = "Created"

\* C5: after any sequence of AddItem, UpdateItemQuantity and RemoveItem calls
\* on order 1, run one after another, the stock taken from every product
\* equals the total quantity of the order's current items of that product.
C5_Conservation ==
  \A p \in Products : BaseStock - db.products[p].stock = Ordered(1, p)

\* An item was added, an initial item was removed and another was raised.
C5_Witness ==
  /\ \A r \in Slots : pc[r] = "idle"
  /\ NumProducts + 1 \in DOMAIN db.items
  /\ 1 \notin DOMAIN db.items
  /\ 2 \in DOMAIN db.items /\ db.items[2].quantity = 2

\* C6: an order cannot be reduced to zero items: no step takes a committed
\* order that has at least one item to a committed order that has none.
C6_OrderKeepsAnItem ==
  [][\A o \in DOMAIN db.orders \cap DOMAIN db'.orders :
        ItemCount(db, o) >= 1 => ItemCount(db', o) >= 1]_vars

PendingInDb(o) == o \in DOMAIN db.orders /\ db.orders[o].status = "pending"

\* C7: while a RemoveItem runs on a pending order that has exactly one item,
\* no committed row changes, and it answers LastItem with nothing left
\* uncommitted, whatever the item id.
C7_LastItemGuard ==
  [][ \A r \in Slots :
        (req[r].kind = "RemoveItem" /\ InFlight(r)
           /\ PendingInDb(req[r].orderId) /\ ItemCount(db, req[r].orderId) = 1)
        => /\ db' = db
           /\ pc'[r] = "done" => (resp'[r].kind = "LastItem"
                                   /\ \A c \in Conns : conn'[c] = CleanConn) ]_vars

\* A RemoveItem on the one-item order 1 has answered LastItem.
C7_Witness ==
  \E r \in Slots :
    /\ Answered(r, "RemoveItem") /\ resp[r].kind = "LastItem"
    /\ PendingInDb(req[r].orderId) /\ ItemCount(db, req[r].orderId) = 1

ItemKinds == {"AddItem", "UpdateItem", "RemoveItem"}

ItemRowsOf(d, o) ==
  [i \in {j \in DOMAIN d.items : d.items[j].order = o} |-> d.items[i]]

\* C9: the committed item rows of an order change only in a step taken
\* while the order's committed status is pending.
C9_ItemsChangeOnlyWhilePending ==
  [][ \A o \in DOMAIN db.orders :
        ItemRowsOf(db', o) # ItemRowsOf(db, o) => db.orders[o].status = "pending" ]_vars

\* C10: an UpdateItemQuantity to newQ > 0 of an item of a pending order,
\* with delta = newQ - oldQ, commits nothing before its last statement; it
\* fails with InsufficientStock and changes nothing if delta > 0 and the
\* stock is below delta; otherwise it succeeds, the item's quantity becomes
\* newQ and the product's stock becomes stock - delta, nothing else changes.
C10_UpdateItemQuantity ==
  [][ \A r \in Slots :
        (req[r].kind = "UpdateItem" /\ InFlight(r) /\ PendingInDb(req[r].orderId)
           /\ ItemOfOrder(db, req[r].itemId, req[r].orderId))
        => LET i == req[r].itemId
               p == db.items[i].product
               delta == req[r].quantity - db.items[i].quantity
           IN IF pc'[r] # "done" THEN db' = db
              ELSE IF delta > 0 /\ db.products[p].stock < delta
                   THEN resp'[r].kind = "InsufficientStock" /\ db' = db
                   ELSE /\ resp'[r].kind = "OK"
                        /\ db' = [db EXCEPT !.items[i].quantity = req[r].quantity,
                                            !.products[p].stock = @ - delta] ]_vars

\* An UpdateItemQuantity has raised an item from 1 to 2 and taken the last
\* unit of stock.
C10_Witness ==
  \E r \in Slots :
    /\ Answered(r, "UpdateItem") /\ resp[r].kind = "OK"
    /\ ItemOfOrder(db, req[r].itemId, req[r].orderId)
    /\ db.items[req[r].itemId].quantity = 2
    /\ db.products[db.items[req[r].itemId].product].stock = InitStock - 1

\* C11: an UpdateItemQuantity whose quantity equals the current quantity of
\* an item of a pending order changes no committed row at any of its steps
\* and answers with success, whatever the stock; the state after it is the
\* state before it, so repeating it changes nothing either.
C11_SameQuantityIsNoOp ==
  [][ \A r \in Slots :
        (req[r].kind = "UpdateItem" /\ InFlight(r) /\ PendingInDb(req[r].orderId)
           /\ ItemOfOrder(db, req[r].itemId, req[r].orderId)
           /\ db.items[req[r].itemId].quantity = req[r].quantity)
        => /\ db' = db
           /\ pc'[r] = "done" => (resp'[r].kind = "OK"
                                   /\ \A c \in Conns : conn'[c] = CleanConn) ]_vars

\* An UpdateItemQuantity to the quantity the item already had has succeeded
\* while the product was out of stock.
C11_Witness ==
  \E r \in Slots :
    /\ Answered(r, "UpdateItem") /\ resp[r].kind = "OK"
    /\ loc[r].item.quantity = req[r].quantity
    /\ db.products[loc[r].item.product].stock = 0

\* C12: the committed rows change in a step of a RemoveItem only so that
\* its item disappears and, in the same step, the stock of the item's
\* product rises by exactly the item's quantity: no committed state has the
\* stock restored with the item still there, or the item gone with the stock
\* not restored.  Runs with an administrative stock edit are left aside.
C12_RemoveItemAtomic ==
  [][ \A r \in Slots :
        (req[r].kind = "RemoveItem" /\ pc'[r] # pc[r]
           /\ \A r2 \in Slots : req[r2].kind # "PatchProduct")
        => LET i == req[r].itemId
               gone == i \in DOMAIN db.items /\ i \notin DOMAIN db'.items
           IN /\ gone => db'.products[db.items[i].product].stock
                            = db.products[db.items[i].product].stock + db.items[i].quantity
              /\ \A p \in Products :
                    db'.products[p].stock > db.products[p].stock
                      => gone /\ db.items[i].product = p ]_vars

RECURSIVE Requested(_, _, _)
\* Total quantity the first n entries of an item list ask of product p.
Requested(items, n, p) ==
  IF n = 0 THEN 0
  ELSE Requested(items, n - 1, p)
         + (IF items[n].productId = p THEN items[n].quantity ELSE 0)

\* C13: a CreateOrder commits nothing before its last statement, and when it
\* answers with success that statement has added exactly one order, pending,
\* of the given customer (who exists), one item per entry with ids in input
\* order, each with the entry's product and quantity and the product's price,
\* and has lowered every product's stock by the total the entries ask of it;
\* nothing else has changed.
C13_CreateOrderEffect ==
  [][ \A r \in Slots :
        (req[r].kind = "CreateOrder" /\ InFlight(r))
        => IF pc'[r] # "done" THEN db' = db
           ELSE resp'[r].kind = "Created" =>
                LET l == req[r].items
                    n == Len(l)
                    o == loc[r].oid
                    first == nextItemId - n
                IN /\ req[r].customerId \in Customers
                   /\ o \notin DOMAIN db.orders
                   /\ db'.orders = InsertOrder(db, o, req[r].customerId).orders
                   /\ DOMAIN db'.items = DOMAIN db.items \cup (first..(first + n - 1))
                   /\ \A i \in DOMAIN db.items : i < first /\ db'.items[i] = db.items[i]
                   /\ \A k \in 1..n :
                         db'.items[first + k - 1] =
                           [order |-> o, product |-> l[k].productId,
                            quantity |-> l[k].quantity,
                            price |-> db.products[l[k].productId].price]
                   /\ \A p \in Products :
                         db'.products[p] =
                           [db.products[p] EXCEPT !.stock = @ - Requested(l, n, p)] ]_vars

\* A CreateOrder with two entries of product 1 has succeeded after the price
\* of product 1 was changed.
C13_Witness ==
  \E r \in Slots :
    /\ Answered(r, "CreateOrder") /\ resp[r].kind = "Created"
    /\ Len(req[r].items) = 2
    /\ \A k \in 1..2 : req[r].items[k].productId = 1
    /\ db.products[1].price = NewPrice
    /\ \A i \in loc[r].made : db.items[i].price = NewPrice

\* Entry k of the list asks more of its product than its stock less what the
\* earlier entries ask of the same product.
ExceedsRemainder(l, n) ==
  l[n].quantity > db.products[l[n].productId].stock - Requested(l, n - 1, l[n].productId)

\* C14: a CreateOrder of an existing customer whose entries all name existing
\* products, and in which an entry after the first asks more of its product
\* than the stock that the earlier entries of the call leave, changes no
\* committed row and answers InsufficientStock with nothing left uncommitted.
C14_RepeatedProduct ==
  [][ \A r \in Slots :
        (req[r].kind = "CreateOrder" /\ InFlight(r)
           /\ req[r].customerId \in Customers
           /\ (\A k \in 1..Len(req[r].items) : req[r].items[k].productId \in Products)
           /\ \E n \in 2..Len(req[r].items) : ExceedsRemainder(req[r].items, n))
        => /\ db' = db
           /\ pc'[r] = "done" => (resp'[r].kind = "InsufficientStock"
                                   /\ \A c \in Conns : conn'[c] = CleanConn) ]_vars

\* A CreateOrder has failed with InsufficientStock on a second entry that the
\* stock alone would cover, after a first entry of the same product.
C14_Witness ==
  \E r \in Slots :
    /\ Answered(r, "CreateOrder") /\ resp[r].kind = "InsufficientStock"
    /\ Len(req[r].items) = 2
    /\ req[r].items[1].productId = req[r].items[2].productId
    /\ req[r].items[1].productId \in Products
    /\ \A k \in 1..2 : req[r].items[k].quantity
                          <= db.products[req[r].items[k].productId].stock

\* C15: while only AddItem requests are in the system, every committed state
\* has, for each product, as much stock taken as the committed items hold of
\* it: an AddItem's new item and its stock decrease become visible together,
\* and a failed AddItem leaves neither.
C15_AddItemAtomic ==
  (\A r \in Slots : req[r].kind \in {"", "AddItem"})
  => \A p \in Products : BaseStock - db.products[p].stock = OrderedByAll(p)

\* The product whose stock request r is about to write.
StockTarget(r) ==
  IF req[r].kind = "AddItem" THEN req[r].productId
  ELSE IF req[r].kind = "CreateOrder" THEN req[r].items[loc[r].k].productId
  ELSE loc[r].item.product

\* C16: when a CreateOrder, AddItem or UpdateItemQuantity runs its UPDATE of
\* a product's stock, the stock that statement finds is the stock the
\* handler read with SELECT ... FOR UPDATE and checked: no other request has
\* changed it in between.
C16_LockCoversCheckAndWrite ==
  [][ \A r \in Slots :
        (req[r].kind \in {"CreateOrder", "AddItem", "UpdateItem"}
           /\ pc[r] = "updateStock" /\ pc'[r] # "updateStock")
        => View(holds[r]).products[StockTarget(r)].stock = loc[r].product.stock ]_vars

\* C17: no error leaves a handler uncaught, and every handler that has ended
\* has sent a response, also when statements are rejected.
C17_OneResponseOnEveryPath ==
  \A r \in Slots :
    /\ pc[r] # "escaped"
    /\ pc[r] = "done" => resp[r].kind # ""

C18_ChecksInListedOrder ==
  \A r \in Slots :
    /\ (Answered(r, "CreateOrder") /\ req[r].customerId = BadCustomer)
         => resp[r].kind = "CustomerNotFound"
    /\ ((Answered(r, "AddItem") \/ Answered(r, "UpdateItem"))
           /\ req[r].orderId \notin DOMAIN db.orders)
         => resp[r].kind = "OrderNotFound"
    /\ ((Answered(r, "AddItem") \/ Answered(r, "UpdateItem"))
           /\ req[r].orderId \in DOMAIN db.orders
           /\ db.orders[req[r].orderId].status # "pending")
         => resp[r].kind = "InvalidState"

\* C18, amended: the body of the request is checked before storage is
\* consulted.  An answered CreateOrder with a missing customer id or an empty
\* list has answered InvalidInput; otherwise, with a customer that does not
\* exist, CustomerNotFound, whatever its entries.  An answered AddItem or
\* UpdateItemQuantity with a quantity that is missing or not positive (for
\* AddItem also a missing product id) has answered InvalidInput; otherwise,
\* with an order that does not exist, OrderNotFound; otherwise, with an
\* order that is not pending, InvalidState.
C18_BodyChecksFirst ==
  \A r \in Slots :
    /\ Answered(r, "CreateOrder") =>
          IF req[r].customerId = 0 \/ req[r].items = <<>>
          THEN resp[r].kind = "InvalidInput"
          ELSE req[r].customerId \notin Customers => resp[r].kind = "CustomerNotFound"
    /\ (Answered(r, "AddItem") \/ Answered(r, "UpdateItem")) =>
          IF req[r].quantity <= 0 \/ (req[r].kind = "AddItem" /\ req[r].productId = 0)
          THEN resp[r].kind = "InvalidInput"
          ELSE IF req[r].orderId \notin DOMAIN db.orders
          THEN resp[r].kind = "OrderNotFound"
          ELSE db.orders[req[r].orderId].status # "pending"
                 => resp[r].kind = "InvalidState"

\* An UpdateItemQuantity with quantity 0 on an order that is not pending has
\* answered InvalidInput.
C18_Witness ==
  \E r \in Slots :
    /\ Answered(r, "UpdateItem") /\ req[r].quantity = 0
    /\ req[r].orderId \in DOMAIN db.orders
    /\ db.orders[req[r].orderId].status = "picked"
    /\ resp[r].kind = "InvalidInput"

\* The request in slot r carries a quantity that is missing or not positive.
BadQuantity(q) ==
  \/ q.kind \in {"AddItem", "UpdateItem"} /\ q.quantity <= 0
  \/ q.kind = "CreateOrder" /\ \E k \in 1..Len(q.items) : q.items[k].quantity <= 0

\* The first entry of list l whose quantity is missing or not positive.
FirstBad(l) ==
  CHOOSE k \in 1..Len(l) :
    l[k].quantity <= 0 /\ \A j \in 1..(k - 1) : l[j].quantity > 0

\* C20: after every step every committed item has a quantity > 0; and while
\* a CreateOrder, AddItem or UpdateItemQuantity with a quantity that is
\* missing or not positive is handled, no committed row changes, it does not
\* answer with success, nothing is left uncommitted, and the answer is
\* InvalidInput for AddItem and UpdateItemQuantity, and for a CreateOrder
\* whose customer exists and whose entries before the first such quantity
\* name existing products and fit the stock.
C20_QuantityPositive ==
  [][ /\ \A i \in DOMAIN db'.items : db'.items[i].quantity > 0
      /\ \A r \in Slots :
           (BadQuantity(req'[r]) /\ pc'[r] # "idle") =>
             /\ db' = db
             /\ pc'[r] = "done" =>
                  /\ resp'[r].kind \notin {"", "OK", "Created"}
                  /\ \A c \in Conns : conn'[c] = CleanConn
                  /\ req'[r].kind \in {"AddItem", "UpdateItem"}
                       => resp'[r].kind = "InvalidInput"
                  /\ (req'[r].kind = "CreateOrder"
                        /\ req'[r].customerId \in Customers
                        /\ \A j \in 1..(FirstBad(req'[r].items) - 1) :
                              /\ req'[r].items[j].productId \in Products
                              /\ ~ExceedsRemainder(req'[r].items, j))
                       => resp'[r].kind = "InvalidInput" ]_vars

\* A CreateOrder whose second entry has no quantity has answered
\* InvalidInput after the item of its first entry was inserted and undone.
C20_Witness ==
  \E r \in Slots :
    /\ Answered(r, "CreateOrder") /\ resp[r].kind = "InvalidInput"
    /\ req[r].customerId \in Customers
    /\ req[r].items = <<Entry(1, 1), Entry(1, 0)>>
    /\ loc[r].k = 2
    /\ \A c \in Conns : conn[c] = CleanConn

\* C21: no step changes the price-at-order of an item that exists before and
\* after it, whether the step belongs to a price change of the product, to a
\* quantity change of the item or to an operation on another item.
C21_PriceAtOrderFixed ==
  [][ \A i \in DOMAIN db.items \cap DOMAIN db'.items :
        db'.items[i].price = db.items[i].price ]_vars

\* After the price of product 1 was changed, the quantity of item 1 (of
\* product 1) was changed and an item of product 1 was added at the new
\* price; item 1 still has the price it was created with.
C21_Witness ==
  /\ db.products[1].price = NewPrice
  /\ 1 \in DOMAIN db.items /\ db.items[1].quantity = MaxQty /\ db.items[1].price = 1
  /\ \E i \in DOMAIN db.items : db.items[i].product = 1 /\ db.items[i].price = NewPrice

\* The product whose stock the item operation q may change: the product
\* added, or the product of the targeted item when it is an item of q's order.
TargetProduct(q) ==
  IF q.kind = "AddItem" THEN q.productId
  ELSE IF q.itemId \in DOMAIN db.items /\ db.items[q.itemId].order = q.orderId
       THEN db.items[q.itemId].product
       ELSE 0

\* C30: no step of an AddItem, UpdateItemQuantity or RemoveItem on order O
\* changes a row of the orders table, an item of another order, an item of O
\* other than the targeted one (for AddItem: any existing item), or the stock
\* or price of a product other than the targeted item's product; the only
\* row it may add is an item of O, and only AddItem adds one.
C30_ItemOperationFrame ==
  [][ \A r \in Slots :
        (req[r].kind \in ItemKinds /\ pc[r] # "idle") =>
          /\ db'.orders = db.orders
          /\ \A i \in DOMAIN db.items :
                (\/ db.items[i].order # req[r].orderId
                 \/ req[r].kind = "AddItem"
                 \/ i # req[r].itemId)
                => (i \in DOMAIN db'.items /\ db'.items[i] = db.items[i])
          /\ \A i \in DOMAIN db'.items \ DOMAIN db.items :
                req[r].kind = "AddItem" /\ db'.items[i].order = req[r].orderId
          /\ \A p \in Products :
                p # TargetProduct(req[r]) => db'.products[p] = db.products[p] ]_vars

\* A RemoveItem on order 1 has removed its item and restored the stock of
\* the item's product, while order 2 still has its item.
C30_Witness ==
  \E r \in Slots :
    /\ Answered(r, "RemoveItem") /\ resp[r].kind = "OK"
    /\ req[r].orderId = 1 /\ req[r].itemId \notin DOMAIN db.items
    /\ ItemCount(db, 1) >= 1 /\ ItemCount(db, 2) >= 1
    /\ \E p \in Products : db.products[p].stock > InitStock

\* Position of a status on the line pending -> picked -> packed -> shipped.
StatusRank(s) ==
  CASE s = "pending" -> 1 [] s = "picked" -> 2 [] s = "packed" -> 3
    [] s = "shipped" -> 4 [] OTHER -> 0

\* C22: every order's status is one of the four, and no step moves the
\* status of an order to an earlier position of the line.
C22_StatusOnlyForward ==
  [][ \A o \in DOMAIN db.orders \cap DOMAIN db'.orders :
        /\ db'.orders[o].status \in Statuses
        /\ StatusRank(db'.orders[o].status) >= StatusRank(db.orders[o].status) ]_vars

\* The products whose rows request q reads under lock or writes.
Touches(q) ==
  IF q.kind = "AddItem" THEN {q.productId}
  ELSE IF q.kind \in {"UpdateItem", "RemoveItem"}
       THEN {InitDb.items[i].product : i \in {q.itemId} \cap DOMAIN InitDb.items}
  ELSE IF q.kind = "CreateOrder"
       THEN {q.items[k].productId : k \in 1..Len(q.items)}
  ELSE {}

\* C23: a request that awaits a statement on its connection, while every
\* other request arrived so far touches other products only, can take its
\* next step: no row lock held for another product keeps it waiting.
C23_DistinctProductsDoNotBlock ==
  \A r \in Slots :
    (InFlight(r) /\ holds[r] # 0
       /\ \A r2 \in Slots \ {r} : Touches(req[r2]) \cap Touches(req[r]) = {})
    => ENABLED LockStatement(r)

\* A request on product 2 has been answered with success while the
\* transaction of a request on product 1 holds the row lock of product 1.
C23_Witness ==
  \E r, r2 \in Slots :
    /\ Touches(req[r]) = {1} /\ InFlight(r)
    /\ \E c \in Conns : <<"products", 1>> \in conn[c].locks
    /\ Touches(req[r2]) = {2} /\ pc[r2] = "done" /\ resp[r2].kind \in {"OK", "Created"}
    /\ db.products[2].stock # InitStock

\* What the response of slot r states, by name.
Stated(r) == {f[1] : f \in resp[r].says}

\* C24: every InsufficientStock response sent states the product, the available
\* quantity and the requested quantity.
C24_InsufficientStockMessage ==
  \A r \in Slots :
    (pc[r] = "done" /\ resp[r].kind = "InsufficientStock")
      => {"product", "available", "requested"} \subseteq Stated(r)

\* C25: when the handler of a CreateOrder, AddItem, UpdateItemQuantity or
\* RemoveItem whose caller went away while it was in progress has ended, the
\* committed rows are those from before the request.
C25_CancelledMeansRolledBack ==
  \A r \in Slots :
    (req[r].kind \in TxKinds /\ req[r].aborted /\ pc[r] = "done") => db = InitDb

\* The requests that have issued BEGIN and have not completed their COMMIT
\* or ROLLBACK.
InTransaction == {r \in Slots : req[r].kind \in TxKinds /\ pc[r] \notin {"idle", "begin", "done"}}

\* C26: every request between its BEGIN and the end of its COMMIT or
\* ROLLBACK has a transaction of its own: there are as many open
\* transactions as such requests, and the connection its awaited statement
\* runs on is inside a transaction.
C26_OneSessionPerRequest ==
  /\ Cardinality({c \in Conns : conn[c].inTx}) >= Cardinality(InTransaction)
  /\ \A r \in InTransaction : holds[r] # 0 => conn[holds[r]].inTx

\* C27: in every committed state, for every product, the stock plus the
\* quantities of all items of the product is what it was before any order
\* was placed.
C27_GlobalConservation ==
  \A p \in Products : db.products[p].stock + OrderedByAll(p) = BaseStock

\* C28: the step with which a CreateOrder, AddItem, UpdateItemQuantity or
\* RemoveItem handler that has issued BEGIN sends its response is the
\* completion of its COMMIT, for a success response, or of a ROLLBACK, for
\* an error response, and leaves the connection outside any transaction
\* with nothing uncommitted.
C28_TransactionEndsBeforeResponse ==
  [][ \A r \in Slots :
        (req[r].kind \in TxKinds /\ pc[r] \notin {"idle", "done"} /\ pc'[r] = "done") =>
          /\ resp'[r].kind # ""
          /\ IF resp'[r].kind \in {"OK", "Created"}
             THEN pc[r] = "commit"
             ELSE pc[r] \in {"rollback", "catch"}
          /\ conn'[holds[r]] = CleanConn ]_vars

\* A CreateOrder has answered with a storage error after it had inserted an
\* item: nothing of it is committed and no transaction is open.
C28_Witness ==
  \E r \in Slots :
    /\ Answered(r, "CreateOrder") /\ resp[r].kind = "StorageError"
    /\ loc[r].made # {}
    /\ db = InitDb
    /\ \A c \in Conns : conn[c] = CleanConn

\* C29: every request that has arrived is eventually answered.
C29_EveryOperationAnswers ==
  \A r \in Slots : (pc[r] # "idle") ~> (pc[r] = "done")

\* Two CreateOrder calls that list products 1 and 2 in opposite order have
\* both been answered, one of them after the server had ended the deadlock
\* at its expense.
C29_Witness ==
  \E r, r2 \in Slots :
    /\ Answered(r, "CreateOrder") /\ Answered(r2, "CreateOrder")
    /\ req[r].items = <<Entry(1, 1), Entry(2, 1)>>
    /\ req[r2].items = <<Entry(2, 1), Entry(1, 1)>>
    /\ resp[r].kind = "Created" /\ resp[r2].kind = "StorageError"

\* C31: when a successful AddItem has been followed, with nothing in
\* between, by a successful RemoveItem of the item it added, the committed
\* rows (stock of every product, items of every order) are those from
\* before the AddItem.
C31_AddThenRemoveRoundTrip ==
  (/\ Answered(1, "AddItem") /\ resp[1].kind = "Created"
   /\ Answered(2, "RemoveItem") /\ resp[2].kind = "OK"
   /\ req[2].itemId \in loc[1].made)
  => db = StartDb

\* An item of product 1 was added to order 2, which had one item, and
\* removed again.
C31_Witness ==
  /\ Answered(1, "AddItem") /\ resp[1].kind = "Created"
  /\ req[1].orderId = 2 /\ req[1].productId = 1
  /\ Answered(2, "RemoveItem") /\ resp[2].kind = "OK"
  /\ req[2].itemId \in loc[1].made
  /\ db.products[1].stock = InitStock

(* ======================== workers and users ============================ *)
\* The worker routes run each statement through pool.query with no
\* transaction around them: every statement is committed on its own.

\* SELECT * FROM workers WHERE user_id = $1
LinkedWorkers(V, u) == {w \in DOMAIN V.workers : V.workers[w].user = u}

\* SELECT * FROM workers WHERE email = $1
WorkersWithEmail(V, e) == {w \in DOMAIN V.workers : V.workers[w].email = e}

\* The id the workers sequence gives next; no statement of server.js
\* deletes a worker row, so the rows count the values handed out.
NextWorkerId(V) == Cardinality(DOMAIN V.workers) + 1

\* INSERT INTO workers (name, email, role, phone, active, user_id)
InsertWorker(V, e, u) ==
  LET id == NextWorkerId(V) IN
  [V EXCEPT !.workers = [x \in DOMAIN V.workers \cup {id} |->
        IF x = id THEN [user |-> u, email |-> e] ELSE V.workers[x]]]

\* UPDATE workers SET user_id = $1 WHERE id = $2
SetWorkerUser(V, w, u) ==
  IF w \in DOMAIN V.workers THEN [V EXCEPT !.workers[w].user = u] ELSE V

\* DELETE FROM users WHERE id = $1 RETURNING id
DeleteUser(V, u) == [V EXCEPT !.users = @ \ {u}]

PostWorkerReq(email, userId) ==
  [NoReq EXCEPT !.kind = "PostWorker", !.email = email, !.userId = userId]
PatchWorkerReq(workerId, userId) ==
  [NoReq EXCEPT !.kind = "PatchWorker", !.workerId = workerId, !.userId = userId]
DeleteWorkerReq(id) ==
  [NoReq EXCEPT !.kind = "DeleteWorker", !.workerId = id]

(* ------------------ POST /workers (server.js:847-904) ------------------ *)
PostWorker_SelectEmail(r) ==
  /\ Awaiting(r, "PostWorker", "selectEmail")
  /\ Read
  /\ LET V == View(holds[r]) IN
       IF WorkersWithEmail(V, req[r].email) # {}
       THEN Goto(r, "done", loc[r], Reply("EmailExists"))
       ELSE Goto(r, IF req[r].userId # 0 THEN "selectUser" ELSE "insertWorker",
                 loc[r], resp[r])
  /\ UNCHANGED <<nextOrderId, nextItemId>>

PostWorker_SelectUser(r) ==
  /\ Awaiting(r, "PostWorker", "selectUser")
  /\ Read
  /\ IF req[r].userId \in View(holds[r]).users
     THEN Goto(r, "selectLink", loc[r], resp[r])
     ELSE Goto(r, "done", loc[r], Reply("UserNotFound"))
  /\ UNCHANGED <<nextOrderId, nextItemId>>

PostWorker_SelectLink(r) ==
  /\ Awaiting(r, "PostWorker", "selectLink")
  /\ Read
  /\ IF LinkedWorkers(View(holds[r]), req[r].userId) # {}
     THEN Goto(r, "done", loc[r], Reply("AlreadyLinked"))
     ELSE Goto(r, "insertWorker", loc[r], resp[r])
  /\ UNCHANGED <<nextOrderId, nextItemId>>

PostWorker_Insert(r) ==
  /\ Awaiting(r, "PostWorker", "insertWorker")
  /\ LET c == holds[r]
         V == View(c)
     IN /\ Write(c, InsertWorker(V, req[r].email, req[r].userId), {})
        /\ Goto(r, "done", [loc[r] EXCEPT !.made = {NextWorkerId(V)}], Reply("Created"))
  /\ UNCHANGED <<nextOrderId, nextItemId>>

(* --------------- PATCH /workers/:id (server.js:906-1015) --------------- *)
PatchWorker_SelectUser(r) ==
  /\ Awaiting(r, "PatchWorker", "selectUser")
  /\ Read
  /\ IF req[r].userId \in View(holds[r]).users
     THEN Goto(r, "selectLink", loc[r], resp[r])
     ELSE Goto(r, "done", loc[r], Reply("UserNotFound"))
  /\ UNCHANGED <<nextOrderId, nextItemId>>

\* SELECT * FROM workers WHERE user_id = $1 AND id != $2
PatchWorker_SelectLink(r) ==
  /\ Awaiting(r, "PatchWorker", "selectLink")
  /\ Read
  /\ IF LinkedWorkers(View(holds[r]), req[r].userId) \ {req[r].workerId} # {}
     THEN Goto(r, "done", loc[r], Reply("AlreadyLinked"))
     ELSE Goto(r, "updateWorker", loc[r], resp[r])
  /\ UNCHANGED <<nextOrderId, nextItemId>>

PatchWorker_Update(r) ==
  /\ Awaiting(r, "PatchWorker", "updateWorker")
  /\ LET c == holds[r]
         V == View(c)
     IN Write(c, SetWorkerUser(V, req[r].workerId, req[r].userId), {})
  /\ Goto(r, "selectWorker", loc[r], resp[r])
  /\ UNCHANGED <<nextOrderId, nextItemId>>

PatchWorker_SelectWorker(r) ==
  /\ Awaiting(r, "PatchWorker", "selectWorker")
  /\ Read
  /\ IF req[r].workerId \in DOMAIN View(holds[r]).workers
     THEN Goto(r, "done", loc[r], Reply("OK"))
     ELSE Goto(r, "done", loc[r], Reply("WorkerNotFound"))
  /\ UNCHANGED <<nextOrderId, nextItemId>>

(* -------------- DELETE /workers/:id (server.js:1017-1053) -------------- *)
\* const userId = parseInt(req.params.id);
\* SELECT * FROM workers WHERE user_id = $1
DeleteWorker_SelectLinked(r) ==
  /\ Awaiting(r, "DeleteWorker", "selectLinked")
  /\ Read
  /\ IF LinkedWorkers(View(holds[r]), req[r].workerId) # {}
     THEN Goto(r, "done", loc[r], Reply("LinkedToWorker"))
     ELSE Goto(r, "deleteUser", loc[r], resp[r])
  /\ UNCHANGED <<nextOrderId, nextItemId>>

DeleteWorker_DeleteUser(r) ==
  /\ Awaiting(r, "DeleteWorker", "deleteUser")
  /\ LET c == holds[r]
         V == View(c)
     IN /\ Write(c, DeleteUser(V, req[r].workerId), {})
        /\ Goto(r, "done", loc[r],
                IF req[r].workerId \in V.users
                THEN Reply("UserDeleted") ELSE Reply("UserNotFound"))
  /\ UNCHANGED <<nextOrderId, nextItemId>>

PostWorkerStep(r) ==
  \/ PostWorker_SelectEmail(r) \/ PostWorker_SelectUser(r)
  \/ PostWorker_SelectLink(r) \/ PostWorker_Insert(r)

PatchWorkerStep(r) ==
  \/ PatchWorker_SelectUser(r) \/ PatchWorker_SelectLink(r)
  \/ PatchWorker_Update(r) \/ PatchWorker_SelectWorker(r)

DeleteWorkerStep(r) == DeleteWorker_SelectLinked(r) \/ DeleteWorker_DeleteUser(r)

(* ----- two worker requests at a time, a pool connection for each ------- *)
\* NumWorkers workers without a user account and NumUsers users, as
\* POST /workers without userId and POST /auth/register leave them.
WorkersDb ==
  [InitDb EXCEPT !.workers = [w \in 1..NumWorkers |-> [user |-> 0, email |-> w]],
                 !.users = 1..NumUsers]

InitWorkers ==
  /\ db = WorkersDb
  /\ nextOrderId = 2
  /\ nextItemId = NumProducts + 1
  /\ conn = [c \in Conns |-> CleanConn]
  /\ idle = [i \in 1..PoolMax |-> i]
  /\ pendingQueue = <<>>
  /\ holds = [r \in Slots |-> 0]
  /\ req = [r \in Slots |-> NoReq]
  /\ pc = [r \in Slots |-> "idle"]
  /\ loc = [r \in Slots |-> NoLoc]
  /\ resp = [r \in Slots |-> NoResp]

WorkerInputs ==
  {PostWorkerReq(e, u) : e \in 0..(NumWorkers + 2), u \in 0..(NumUsers + 1)}
  \cup {PatchWorkerReq(w, u) : w \in 1..(NumWorkers + 1), u \in 0..(NumUsers + 1)}
  \cup {DeleteWorkerReq(id) : id \in 1..(NumUsers + 1)}

\* Slot 1 takes the first request, slot 2 the second, at any time after.
ArriveWorker1 ==
  /\ pc[1] = "idle"
  /\ \E q \in WorkerInputs : Start(1, q)
ArriveWorker2 ==
  /\ pc[1] # "idle"
  /\ \E q \in WorkerInputs : Start(2, q)

NextWorkers ==
  \/ ArriveWorker1 \/ ArriveWorker2
  \/ PostWorkerStep(1) \/ PatchWorkerStep(1) \/ DeleteWorkerStep(1)
  \/ PostWorkerStep(2) \/ PatchWorkerStep(2) \/ DeleteWorkerStep(2)

SpecWorkers == InitWorkers /\ [][NextWorkers]_vars

\* C32: DELETE /workers/:id with id w answers with worker w gone, answers
\* not-found when there is no worker w, and leaves the users table as it was.
C32_DeleteWorkerRemovesWorker ==
  [][\A r \in {1, 2} :
       (req[r].kind = "DeleteWorker" /\ pc[r] # "done" /\ pc'[r] = "done")
       => /\ req[r].workerId \notin DOMAIN db'.workers
          /\ req[r].workerId \notin DOMAIN db.workers => resp'[r].kind = "WorkerNotFound"
          /\ db'.users = db.users]_vars

\* C33: no user is linked to more than one worker.
C33_UserLinkedToOneWorker ==
  \A w1, w2 \in DOMAIN db.workers :
    (db.workers[w1].user # 0 /\ db.workers[w1].user = db.workers[w2].user) => w1 = w2

(* ============ the single-product versions (src/unnamed) ================ *)
\* An order of these versions names one product and a quantity.
PostOrderReq(productId, quantity, customerName) ==
  [NoReq EXCEPT !.kind = "PostOrder", !.productId = productId,
                !.quantity = quantity, !.customerName = customerName]
PatchOrderArrayReq(orderId, status) ==
  [NoReq EXCEPT !.kind = "PatchOrderArray", !.orderId = orderId, !.status = status]

\* The version with arrays only has no products table.
ArraysVersion == DOMAIN db.products = {}

\* orders.push(newOrder) with id: orders.length + 1
PushOrder(D, q) ==
  [D EXCEPT !.ordersArray =
     Append(@, [id |-> Len(@) + 1, product |-> q.productId, quantity |-> q.quantity,
                customer |-> q.customerName, status |-> "pending"])]

\* orders.find((o) => o.id === orderId)
FindOrder(D, orderId) == {k \in 1..Len(D.ordersArray) : D.ordersArray[k].id = orderId}

\* INSERT INTO orders (product_id, product_name, quantity, customer_name, status, created_at)
InsertSingleOrder(V, o, q) ==
  [V EXCEPT !.orders = [x \in DOMAIN V.orders \cup {o} |->
        IF x = o THEN [customer |-> q.customerName, status |-> "pending",
                       product |-> q.productId, quantity |-> q.quantity]
        ELSE V.orders[x]]]

(* ---- POST /orders on the arrays (part_000:32-66, part_001:38-73) ------ *)
\* The handler is synchronous: request q is answered in one step.
PostOrderArray(r, q) ==
  /\ pc[r] = "idle"
  /\ req' = [req EXCEPT ![r] = [q EXCEPT !.kind = "PostOrderArray"]]
  /\ pc' = [pc EXCEPT ![r] = "done"]
  /\ loc' = [loc EXCEPT ![r] = NoLoc]
  /\ IF q.productId \notin DOMAIN db.productsArray
     THEN /\ resp' = [resp EXCEPT ![r] = Reply("ProductNotFound")]
          /\ db' = db
     ELSE IF db.productsArray[q.productId].stock < q.quantity
     THEN /\ resp' = [resp EXCEPT ![r] = Reply("InsufficientStock")]
          /\ db' = db
     ELSE /\ resp' = [resp EXCEPT ![r] = Reply("Created")]
          /\ db' = [PushOrder(db, q) EXCEPT
                      !.productsArray[q.productId].stock = @ - q.quantity]
  /\ UNCHANGED <<conn, nextOrderId, nextItemId, holds, idle, pendingQueue>>

(* ----- PATCH /orders/:id on the array (part_001:75-93, part_002:313-331) *)
PatchOrderArray(r, q) ==
  /\ pc[r] = "idle"
  /\ req' = [req EXCEPT ![r] = q]
  /\ pc' = [pc EXCEPT ![r] = "done"]
  /\ loc' = [loc EXCEPT ![r] = NoLoc]
  /\ IF FindOrder(db, q.orderId) = {}
     THEN /\ resp' = [resp EXCEPT ![r] = Reply("OrderNotFound")]
          /\ db' = db
     ELSE /\ resp' = [resp EXCEPT ![r] = Reply("OK")]
          /\ db' = [db EXCEPT !.ordersArray =
                      [k \in DOMAIN @ |-> IF k \in FindOrder(db, q.orderId)
                                          THEN [@[k] EXCEPT !.status = q.status]
                                          ELSE @[k]]]
  /\ UNCHANGED <<conn, nextOrderId, nextItemId, holds, idle, pendingQueue>>

(* --- POST /orders on the database (part_001:372-428, part_002:255-311) - *)
PostOrder_Begin(r) ==
  /\ Awaiting(r, "PostOrder", "begin")
  /\ SqlBegin(holds[r])
  /\ Goto(r, "selectProduct", loc[r], resp[r])
  /\ UNCHANGED <<nextOrderId, nextItemId>>

\* SELECT * FROM products WHERE id = $1 FOR UPDATE, then the stock check
PostOrder_SelectProduct(r) ==
  /\ Awaiting(r, "PostOrder", "selectProduct")
  /\ LET c == holds[r]
         V == View(c)
         p == req[r].productId
     IN /\ Write(c, V, ProductKey(V, p))
        /\ IF p \notin DOMAIN V.products
           THEN Fail(r, "ProductNotFound")
           ELSE IF V.products[p].stock < req[r].quantity
           THEN Fail(r, "InsufficientStock")
           ELSE Goto(r, "insertOrder", [loc[r] EXCEPT !.product = V.products[p]], resp[r])
  /\ UNCHANGED <<nextOrderId, nextItemId>>

PostOrder_InsertOrder(r) ==
  /\ Awaiting(r, "PostOrder", "insertOrder")
  /\ Write(holds[r], InsertSingleOrder(View(holds[r]), nextOrderId, req[r]), {})
  /\ nextOrderId' = nextOrderId + 1
  /\ Goto(r, "updateStock", [loc[r] EXCEPT !.oid = nextOrderId], resp[r])
  /\ UNCHANGED nextItemId

\* UPDATE products SET stock = stock - $1 WHERE id = $2
PostOrder_UpdateStock(r) ==
  /\ Awaiting(r, "PostOrder", "updateStock")
  /\ LET c == holds[r]
         V == View(c)
     IN Write(c, DecreaseStock(V, req[r].productId, req[r].quantity),
              ProductKey(V, req[r].productId))
  /\ Goto(r, "commit", loc[r], resp[r])
  /\ UNCHANGED <<nextOrderId, nextItemId>>

PostOrder_Commit(r) ==
  /\ Awaiting(r, "PostOrder", "commit")
  /\ SqlCommit(holds[r])
  /\ Goto(r, "done", loc[r], Reply("Created"))
  /\ UNCHANGED <<nextOrderId, nextItemId>>

PostOrder_Rollback(r) ==
  /\ Awaiting(r, "PostOrder", "rollback")
  /\ SqlRollback(holds[r])
  /\ Goto(r, "done", loc[r], resp[r])
  /\ UNCHANGED <<nextOrderId, nextItemId>>

PostOrderStep(r) ==
  \/ PostOrder_Begin(r) \/ PostOrder_SelectProduct(r) \/ PostOrder_InsertOrder(r)
  \/ PostOrder_UpdateStock(r) \/ PostOrder_Commit(r) \/ PostOrder_Rollback(r)

(* ------- one request at a time, in either single-product version ------- *)
\* part_000:13-17: the arrays at the start of the process.
ArraysDb ==
  [InitDb EXCEPT !.products = [x \in {} |-> NoProduct],
                 !.orders = [x \in {} |-> NoOrder],
                 !.items = [x \in {} |-> NoItem],
                 !.productsArray = [p \in Products |-> [stock |-> InitStock, price |-> 0]]]

\* part_002: products and orders are tables, the arrays are still declared.
SingleProductDb ==
  [ArraysDb EXCEPT !.products = [p \in Products |-> [stock |-> InitStock, price |-> p]]]

InitSingleProduct ==
  /\ db \in {ArraysDb, SingleProductDb}
  /\ nextOrderId = 1
  /\ nextItemId = 1
  /\ conn = [c \in Conns |-> CleanConn]
  /\ idle = [i \in 1..PoolMax |-> i]
  /\ pendingQueue = <<>>
  /\ holds = [r \in Slots |-> 0]
  /\ req = [r \in Slots |-> NoReq]
  /\ pc = [r \in Slots |-> "idle"]
  /\ loc = [r \in Slots |-> NoLoc]
  /\ resp = [r \in Slots |-> NoResp]

PostOrderInputs ==
  {PostOrderReq(p, n, name) : p \in Products \cup {BadProduct},
                              n \in (0 - 1)..MaxQty, name \in {0, 1}}

ArrivePostOrderArray ==
  /\ ArraysVersion
  /\ Len(db.ordersArray) < MaxOrders
  /\ \E q \in PostOrderInputs : PostOrderArray(1, q)

ArrivePostOrder ==
  /\ ~ArraysVersion
  /\ nextOrderId <= MaxOrders
  /\ \E q \in PostOrderInputs : Start(1, q)

ArrivePatchOrderArray ==
  /\ pc[1] = "idle"
  /\ \E q \in {PatchOrderArrayReq(o, s) : o \in 1..MaxOrders, s \in {"pending", "picked"}} :
       PatchOrderArray(1, q)

NextSingleProduct ==
  \/ ArrivePostOrderArray \/ ArrivePostOrder \/ PostOrderStep(1)
  \/ ArrivePatchOrderArray \/ Finish(1)

SpecSingleProduct == InitSingleProduct /\ [][NextSingleProduct]_vars

\* The stock of product p in store D, whichever version keeps it.
StockIn(D, p) ==
  IF p \in DOMAIN D.products THEN D.products[p].stock ELSE D.productsArray[p].stock

\* C34: in the single-product versions a POST /orders whose quantity is zero
\* or negative creates no order and leaves the stock as it was, and no
\* POST /orders increases the stock of a product.
C34_NonPositiveQuantityRejected ==
  [][(req'[1].kind \in {"PostOrderArray", "PostOrder"} /\ pc[1] # "done" /\ pc'[1] = "done")
     => /\ req'[1].quantity <= 0 =>
             /\ resp'[1].kind # "Created"
             /\ db'.orders = db.orders /\ db'.ordersArray = db.ordersArray
             /\ \A p \in Products : StockIn(db', p) = StockIn(db, p)
        /\ \A p \in Products : StockIn(db', p) <= StockIn(db, p)]_vars

\* C35: in the version of part_002 a PATCH /orders/:id that names an order
\* created by POST /orders is answered with the order, its status updated,
\* not with "Order not found".
C35_CreatedOrderCanBeUpdated ==
  [][(req'[1].kind = "PatchOrderArray" /\ pc[1] = "idle" /\ pc'[1] = "done"
      /\ req'[1].orderId \in DOMAIN db.orders)
     => /\ resp'[1].kind = "OK"
        /\ db'.orders[req'[1].orderId].status = req'[1].status]_vars

====
